---- MODULE Spec2Model ----
(***************************************************************************)
(* Model of the substation diagnosis predictors (backend/ml).              *)
(*                                                                         *)
(* Numbers.  Python floats are modelled as exact rationals <<n, d>> with   *)
(* d > 0 and gcd(n, d) = 1, so equal values are equal tuples.  Arithmetic  *)
(* is exact: binary floating-point rounding error is not modelled.         *)
(*                                                                         *)
(* Python values.  None is PyNone, a dict is PyDict(f) with f a function   *)
(* from key strings to Python values, a list is PyList(s), a number is     *)
(* PyNum(r) with r a rational.                                             *)
(***************************************************************************)
EXTENDS Integers, Sequences, FiniteSets, TLC

VARIABLES
    pc,         \* the predict call of this process: "idle", "returned" or "raised"
    req,        \* the arguments of the current predict call and what the stores hold for it
    frame,      \* the locals of predict when it returned (normalized features, stress, ...)
    report,     \* the outcome of the predict call: Returned(mapping), Raised(..) or NotCalled
    prev,       \* the outcome of the previous run of the same request, or NotCalled
    arts,       \* what the deployed model artifacts answer for this request: [lstm, xgb, iso]
    rng,        \* the random module's generator: the results it will give next
    cache,      \* load_models' lru_cache: the component names whose bundle is cached
    calls,      \* the calls the current predict made outside its module, in order
    m_args,     \* merge_inputs: the (live, asset) arguments of the call under check
    m_out,      \* merge_inputs: its outcome, or NotCalled
    t_seed,     \* generate_timeline_prediction: base_value of the call under check
    t_out,      \* generate_timeline_prediction: the returned list, or NotCalled
    d_args,     \* run_predictor.main: the command line, standard input and stores of the run
    d_out,      \* what a command-line run wrote and its exit status, or NotCalled
    s_args,     \* predict_component_from_panel: arguments, stores, clock and model answer
    s_out,      \* predict_component_from_panel: what the call left, or NotCalled
    s_cache,    \* load_artifacts' lru_cache: the model names whose artifacts are cached
    loads,      \* per loader and name, how many times the loader's body returned a bundle
    racers      \* the threads that call load_models at once: where each is, what it got

vars ==
    <<pc, req, frame, report, prev, arts, rng, cache, calls, m_args, m_out, t_seed, t_out,
      d_args, d_out, s_args, s_out, s_cache, loads, racers>>

-----------------------------------------------------------------------------
(* Exact rational arithmetic *)

Abs(i) == IF i < 0 THEN -i ELSE i

RECURSIVE Gcd(_, _)
Gcd(a, b) == IF b = 0 THEN a ELSE Gcd(b, a % b)

\* n/d in lowest terms with a positive denominator
Q(n, d) ==
    LET s == IF d < 0 THEN -1 ELSE 1
        g == Gcd(Abs(n), Abs(d))
    IN  <<(s * n) \div g, (s * d) \div g>>

Num(i) == <<i, 1>>
Zero == Num(0)
One == Num(1)

Add(x, y) == Q(x[1] * y[2] + y[1] * x[2], x[2] * y[2])
Sub(x, y) == Q(x[1] * y[2] - y[1] * x[2], x[2] * y[2])
Mul(x, y) == Q(x[1] * y[1], x[2] * y[2])
Div(x, y) == Q(x[1] * y[2], x[2] * y[1])
Lt(x, y) == x[1] * y[2] < y[1] * x[2]
Le(x, y) == x[1] * y[2] <= y[1] * x[2]
RAbs(x) == <<Abs(x[1]), x[2]>>
RMax(x, y) == IF Lt(x, y) THEN y ELSE x
RMin(x, y) == IF Lt(y, x) THEN y ELSE x

RECURSIVE Sum(_)
Sum(s) == IF s = <<>> THEN Zero ELSE Add(Head(s), Sum(Tail(s)))

RECURSIVE Pow10(_)
Pow10(k) == IF k = 0 THEN 1 ELSE 10 * Pow10(k - 1)

\* a clip that leaves its argument as it is
clip_nothing(x, lo, hi) == x

\* np.clip(x, lo, hi)
clip(x, lo, hi) == RMin(RMax(x, lo), hi)

\* round(x, ndigits): to the nearest multiple of 10^-ndigits, a tie to the even one
round(x, ndigits) ==
    LET s == Pow10(ndigits)
        num == x[1] * s
        q == num \div x[2]
        r == num % x[2]
        up == \/ 2 * r > x[2]
              \/ (2 * r = x[2] /\ q % 2 = 1)
    IN  Q(IF up THEN q + 1 ELSE q, s)

InRange(x, lo, hi) == Le(lo, x) /\ Le(x, hi)

-----------------------------------------------------------------------------
(* Python values *)

PyNone == [t |-> "None"]
PyDict(f) == [t |-> "dict", items |-> f]
PyList(s) == [t |-> "list", elems |-> s]
PyNum(r) == [t |-> "num", val |-> r]
PyStr(x) == [t |-> "str", s |-> x]
\* a value of a type json cannot encode, such as a document store's timestamp
PyOther(x) == [t |-> "other", type |-> x]
NoItems == [k \in {} |-> PyNone]
EmptyDict == PyDict(NoItems)
EmptyList == PyList(<<>>)

IsNone(v) == v.t = "None"
IsDict(v) == v.t = "dict"
IsList(v) == v.t = "list"

\* bool(v)
Truthy(v) ==
    IF IsNone(v) THEN FALSE
    ELSE IF IsDict(v) THEN DOMAIN v.items # {}
    ELSE IF IsList(v) THEN v.elems # <<>>
    ELSE IF v.t = "str" THEN v.s # ""
    ELSE IF v.t = "other" THEN TRUE
    ELSE v.val # Zero

\* d.get(k, dflt) on a dict d
Get(d, k, dflt) == IF k \in DOMAIN d.items THEN d.items[k] ELSE dflt

\* x or y
Or(x, y) == IF Truthy(x) THEN x ELSE y

NotCalled == [t |-> "not called"]
Raised(exc) == [t |-> "raised", exc |-> exc]
Returned(v) == [t |-> "returned", val |-> v]

NoReq == [t |-> "no request"]
NoFrame == [t |-> "no frame"]

-----------------------------------------------------------------------------
(* utils_preprocess.merge_inputs *)

\* a merge whose .get calls name no default
merge_inputs_no_defaults(live, asset) ==
    IF ~IsDict(asset) \/ ~IsDict(Get(asset, "master", PyNone)) THEN Raised("AttributeError")
    ELSE Returned(
            [live |-> Or(live, EmptyDict),
             asset_info |-> Get(asset, "assets", PyNone),
             condition |-> Get(asset, "conditionAssessment", PyNone),
             maintenanceHistory |-> Get(asset, "maintenanceHistory", PyNone),
             operationHistory |-> Get(asset, "operationHistory", PyNone),
             installationYear |-> Get(Get(asset, "master", PyNone), "installationYear", PyNone),
             metadata |-> Get(asset, "master", PyNone)])

merge_inputs(live, asset) ==
    LET assets == IF IsDict(asset) THEN Get(asset, "assets", EmptyDict) ELSE EmptyDict
        master == IF IsDict(asset) THEN Get(asset, "master", EmptyDict) ELSE EmptyDict
    IN  IF ~IsDict(asset) THEN Raised("AttributeError")       \* asset.get on a non-mapping
        ELSE IF ~IsDict(master) THEN Raised("AttributeError") \* master.get on a non-mapping
        ELSE Returned(
            [live |-> Or(live, EmptyDict),
             asset_info |-> assets,
             condition |-> Get(asset, "conditionAssessment", EmptyDict),
             maintenanceHistory |-> Get(asset, "maintenanceHistory", EmptyList),
             operationHistory |-> Get(asset, "operationHistory", EmptyList),
             installationYear |-> Get(master, "installationYear", PyNone),
             metadata |-> master])

-----------------------------------------------------------------------------
(* predict_models.generate_timeline_prediction *)

HOURS == 24

\* a walk that is rounded but never clamped
RECURSIVE timeline_unclamped(_, _)
timeline_unclamped(current, draws) ==
    IF draws = <<>> THEN <<>>
    ELSE <<round(Add(current, Head(draws)), 2)>>
         \o timeline_unclamped(Add(current, Head(draws)), Tail(draws))

\* The loop body, once per element of draws; draws are the successive results of
\* random.uniform(-5, 5).
RECURSIVE timeline_loop(_, _)
timeline_loop(current, draws) ==
    IF draws = <<>> THEN <<>>
    ELSE LET nxt == RMax(Num(10), RMin(Num(150), Add(current, Head(draws))))
         IN  <<round(nxt, 2)>> \o timeline_loop(nxt, Tail(draws))

\* a walk that starts at the default base_value whatever the caller passes
timeline_from_default(base_value, hours, draws) ==
    timeline_loop(Num(70), SubSeq(draws, 1, hours))

generate_timeline_prediction(base_value, hours, draws) ==
    timeline_loop(base_value, SubSeq(draws, 1, hours))

\* Results of random.uniform(-5, 5) the model draws: both ends, the middle and two
\* values with more than two decimals.
StepSamples == {Num(-5), Q(-1237, 1000), Zero, Q(5, 1000), Num(5)}

\* Streams of draws: a run of one sample followed by a run of another.
DrawStreams(hours) ==
    {[i \in 1..hours |-> IF i <= k THEN a ELSE b] :
        a \in StepSamples, b \in StepSamples, k \in 0..hours}

\* The forecaster's scalar output is unbounded: seeds below, inside and above [10, 150].
SeedSamples ==
    {Num(-20), Num(5), Num(10), Num(70), Q(70006, 1000), Q(14999, 100), Num(150),
     Num(152), Num(200)}

-----------------------------------------------------------------------------
(* predict_models.load_models *)

\* The artifact store: store.dirs are the folders under MODEL_ROOT that exist,
\* store.files the artifact files that exist, store.lstm_attempts the outcome of each
\* successive tf.keras.models.load_model call ("ok" or the exception it raises).
model_config(component_name) ==
    CASE component_name = "transformer" -> [prefix |-> "Transformer", folder |-> "transformer"]
      [] component_name = "isolator" -> [prefix |-> "Isolator", folder |-> "isolator"]
      [] component_name = "busbar" -> [prefix |-> "Busbar", folder |-> "busbar"]
      [] component_name = "bayline" -> [prefix |-> "BayLine", folder |-> "baylines"]
      [] component_name = "bayLines" -> [prefix |-> "BayLine", folder |-> "baylines"]
      [] component_name = "circuitBreaker" -> [prefix |-> "CircuitBreaker", folder |-> "circuitbreaker"]
      [] component_name = "breaker" -> [prefix |-> "CircuitBreaker", folder |-> "circuitbreaker"]
      [] OTHER -> [prefix |-> component_name, folder |-> component_name]

RaisedAt(exc, path) == [t |-> "raised", exc |-> exc, path |-> path]

\* a loader that skips an artifact whose file is missing and returns what it has
load_models_partial(component_name, store) ==
    LET config == model_config(component_name)
        model_dir == IF config.folder \in store.dirs THEN config.folder ELSE "MODEL_ROOT"
    IN  Returned([k \in {x \in {"lstm", "xgb", "iso"} :
                            <<model_dir, config.prefix,
                              CASE x = "lstm" -> "_LSTM.h5" [] x = "xgb" -> "_XGBoost.json"
                                [] x = "iso" -> "_IsolationForest.pkl">> \in store.files} |->
                     <<model_dir, config.prefix, k>>])

\* a load that tries the forecaster a third time when the retry failed too
load_models_retry_twice(component_name, store) ==
    LET config == model_config(component_name)
        model_dir == IF config.folder \in store.dirs THEN config.folder ELSE "MODEL_ROOT"
        lstm_path == <<model_dir, config.prefix, "_LSTM.h5">>
        xgb_path == <<model_dir, config.prefix, "_XGBoost.json">>
        iso_path == <<model_dir, config.prefix, "_IsolationForest.pkl">>
        first == store.lstm_attempts[1]
        second == store.lstm_attempts[2]
        third == IF Len(store.lstm_attempts) > 2 THEN store.lstm_attempts[3] ELSE second
    IN  IF lstm_path \notin store.files THEN RaisedAt("FileNotFoundError", lstm_path)
        ELSE IF first \notin {"ok", "ValueError", "TypeError"} THEN Raised(first)
        ELSE IF first # "ok" /\ second # "ok" /\ third # "ok"
        THEN RaisedAt("ValueError", lstm_path)
        ELSE IF xgb_path \notin store.files THEN RaisedAt("FileNotFoundError", xgb_path)
        ELSE IF iso_path \notin store.files THEN RaisedAt("FileNotFoundError", iso_path)
        ELSE Returned([lstm |-> lstm_path, xgb |-> xgb_path, iso |-> iso_path])

load_models(component_name, store) ==
    LET config == model_config(component_name)
        model_dir == IF config.folder \in store.dirs THEN config.folder ELSE "MODEL_ROOT"
        lstm_path == <<model_dir, config.prefix, "_LSTM.h5">>
        xgb_path == <<model_dir, config.prefix, "_XGBoost.json">>
        iso_path == <<model_dir, config.prefix, "_IsolationForest.pkl">>
        first == store.lstm_attempts[1]
        second == store.lstm_attempts[2]
    IN  IF lstm_path \notin store.files THEN RaisedAt("FileNotFoundError", lstm_path)
        ELSE IF first \notin {"ok", "ValueError", "TypeError"} THEN Raised(first)
        ELSE IF first # "ok" /\ second # "ok" THEN RaisedAt("ValueError", lstm_path)
        ELSE IF xgb_path \notin store.files THEN RaisedAt("FileNotFoundError", xgb_path)
        ELSE IF iso_path \notin store.files THEN RaisedAt("FileNotFoundError", iso_path)
        ELSE Returned([lstm |-> lstm_path, xgb |-> xgb_path, iso |-> iso_path])

\* what a call of the lru_cache wrapper leaves: its outcome, whether the body ran, the
\* cache after it
Looked(res, body, cached) == [res |-> res, body |-> body, cache |-> cached]

\* a store in which the bundle stored last replaces the one that is there
lru_store_last(component_name, res, cached) ==
    IF res.t = "returned"
    THEN Looked(res, TRUE,
                [k \in DOMAIN cached \cup {component_name} |->
                    IF k = component_name THEN res.val ELSE cached[k]])
    ELSE Looked(res, TRUE, cached)

\* the wrapper's miss: the body ran with outcome res; a bundle is stored under the name
\* unless a bundle was stored there meanwhile, an exception stores nothing
lru_store(component_name, res, cached) ==
    IF res.t = "returned" /\ component_name \notin DOMAIN cached
    THEN Looked(res, TRUE, (component_name :> res.val) @@ cached)
    ELSE Looked(res, TRUE, cached)

\* a wrapper that looks nothing up: the body runs at every call and its bundle is stored
load_models_uncached(component_name, store, cached) ==
    LET res == load_models(component_name, store)
    IN  IF res.t = "returned"
        THEN Looked(res, TRUE,
                    [k \in DOMAIN cached \cup {component_name} |->
                        IF k = component_name THEN res.val ELSE cached[k]])
        ELSE Looked(res, TRUE, cached)

\* @lru_cache(maxsize=10) around load_models: a cached bundle is returned without
\* running the body.  The predictors pass four names, so nothing is ever evicted.
load_models_cached(component_name, store, cached) ==
    IF component_name \in DOMAIN cached
    THEN Looked(Returned(cached[component_name]), FALSE, cached)
    ELSE lru_store(component_name, load_models(component_name, store), cached)

-----------------------------------------------------------------------------
(* predict_shared.FAULT_LIBRARY, predict_models.pick_fault_from_probability *)

NoneStr == "None"

FAULT_LIBRARY ==
    [bayLines |-> <<<<"Power Swing / Stability Risk", "Line section A">>,
                    <<"Voltage Sag", "PT circuit">>,
                    <<"Current Unbalance", "CT core">>>>,
     transformer |-> <<<<"Winding Hotspot", "HV winding">>,
                       <<"Oil Degradation", "Main tank">>,
                       <<"Tap Changer Wear", "OLTC compartment">>>>,
     circuitBreaker |-> <<<<"Slow Operating Mechanism", "Spring drive">>,
                          <<"SF6 Leak", "Tank">>,
                          <<"Contact Wear", "Arcing contact">>>>,
     busbar |-> <<<<"Thermal Hotspot", "Section-2">>,
                  <<"Shield Connection Loose", "Spacer clamp">>,
                  <<"Overload Risk", "Phase B">>>>,
     isolator |-> <<<<"Drive Torque Drop", "Drive shaft">>,
                    <<"Contact Resistance Rise", "Jaw contact">>,
                    <<"Motor Stall", "Motor unit">>>>,
     relay |-> <<<<"Firmware Fault", "CPU board">>, <<"Incorrect Settings", "Zone-2 reach">>>>,
     pmu |-> <<<<"GPS Unlock", "Time sync module">>, <<"Phasor Drift", "ADC board">>>>,
     gis |-> <<<<"Partial Discharge", "Compartment C1">>,
               <<"SF6 Moisture Rise", "Compartment C3">>>>,
     battery |-> <<<<"Cell Imbalance", "String-1">>, <<"Float Voltage Drop", "Charger unit">>>>,
     environment |-> <<<<"Thermal Stress", "Ambient">>, <<"Humidity Spike", "Control room">>>>]

library_of(component) ==
    IF component \in DOMAIN FAULT_LIBRARY THEN FAULT_LIBRARY[component]
    ELSE <<<<"Undefined Condition", NoneStr>>>>

\* random.choice(seq) when the generator's next choice is number `choice`
random_choice(seq, choice) == seq[((choice - 1) % Len(seq)) + 1]

FAULT_THRESHOLD == Q(55, 100)

\* a selection that still says "Normal" at the threshold itself
pick_fault_above(component, probability, choice) ==
    IF Le(probability, Q(55, 100))
    THEN [predicted_fault |-> "Normal", affected_subpart |-> NoneStr]
    ELSE [predicted_fault |-> library_of(component)[1][1],
          affected_subpart |-> library_of(component)[1][2]]

pick_fault_from_probability(component, probability, choice) ==
    IF Lt(probability, FAULT_THRESHOLD)
    THEN [predicted_fault |-> "Normal", affected_subpart |-> NoneStr]
    ELSE LET pair == random_choice(library_of(component), choice)
         IN  [predicted_fault |-> pair[1], affected_subpart |-> pair[2]]

-----------------------------------------------------------------------------
(* What the four model-backed predict functions share *)

CURRENT_YEAR == 2025

Pct(n) == Q(n, 100)

\* data[k]
Item(data, k) == data.items[k].val

\* an insertion that puts an item before the items of equal value
insert_desc_unstable(x, s) ==
    LET k == Cardinality({i \in 1..Len(s) : Lt(x[2], s[i][2])})
    IN  SubSeq(s, 1, k) \o <<x>> \o SubSeq(s, k + 1, Len(s))

\* sorted(items, key=lambda x: x[1], reverse=True): descending by value, and stable:
\* items of equal value keep the order they had.
insert_desc(x, s) ==
    LET k == Cardinality({i \in 1..Len(s) : Le(x[2], s[i][2])})
    IN  SubSeq(s, 1, k) \o <<x>> \o SubSeq(s, k + 1, Len(s))

RECURSIVE sorted_desc(_)
sorted_desc(items) ==
    IF items = <<>> THEN <<>>
    ELSE insert_desc(items[Len(items)], sorted_desc(SubSeq(items, 1, Len(items) - 1)))

\* s[:n]
Take(s, n) == SubSeq(s, 1, IF Len(s) < n THEN Len(s) ELSE n)

top3_of(impact_factors) ==
    LET top3 == Take(sorted_desc(impact_factors), 3)
    IN  [i \in 1..Len(top3) |-> top3[i][1]]

\* a conversion that keeps the detector's polarity: the inlier label gives 1
iso_to_score_kept(label) == IF label = 1 THEN 1 ELSE 0

\* iso_score = 0 if iso_score == 1 else 1
iso_to_score(label) == IF label = 1 THEN 0 ELSE 1

\* a fusion that reports the pre-fusion probability itself
combine_fault_prefusion(fault_prob, stress, asset_aging) == fault_prob

\* STEP 6: combined fault probability
combine_fault(fault_prob, stress, asset_aging) ==
    clip(Sum(<<Mul(Pct(50), fault_prob), Mul(Pct(30), stress), Mul(Pct(20), asset_aging)>>),
         Zero, One)

\* an aging that is calculate_asset_aging's default whatever the year
aging_default(data) == Pct(50)

\* asset_aging = np.clip((CURRENT_YEAR - data["installationYear"]) / 40, 0, 1)
aging_of(data) ==
    clip(Div(Sub(Num(CURRENT_YEAR), Item(data, "installationYear")), Num(40)), Zero, One)

\* an explanation that takes its high variant from a pre-fusion probability above 0.5
explanation_of_half(fr, top3_factors) ==
    IF Lt(Pct(50), fr.fault_prob)
    THEN [variant |-> "High fault probability detected",
          concerns |-> Take(top3_factors, 2),
          lstm |-> round(fr.lstm_forecast, 2),
          iso |-> fr.iso_score,
          xgb |-> round(fr.xgb_fault_score, 2)]
    ELSE [variant |-> "Operating within normal parameters",
          health |-> round(fr.health_index, 1),
          factors |-> top3_factors]

explanation_of(fr, top3_factors) ==
    IF Lt(Pct(70), fr.fault_prob)
    THEN [variant |-> "High fault probability detected",
          concerns |-> Take(top3_factors, 2),
          lstm |-> round(fr.lstm_forecast, 2),
          iso |-> fr.iso_score,
          xgb |-> round(fr.xgb_fault_score, 2)]
    ELSE [variant |-> "Operating within normal parameters",
          health |-> round(fr.health_index, 1),
          factors |-> top3_factors]

\* a result whose health_index is scaled by the regressor's score
result_blended(component, fr, fault_info, explanation, timeline_prediction, top3_factors) ==
    [component |-> component,
     fault_probability |-> round(fr.combined_fault, 3),
     health_index |-> round(Mul(fr.health_index, Sub(One, fr.xgb_fault_score)), 2),
     predicted_fault |-> fault_info.predicted_fault,
     affected_subpart |-> fault_info.affected_subpart,
     explanation |-> explanation,
     timeline_prediction |-> timeline_prediction,
     LSTM_ForecastScore |-> round(fr.lstm_forecast, 2),
     IsolationForestScore |-> fr.iso_score,
     XGBoost_FaultScore |-> round(fr.xgb_fault_score, 3),
     Top3_HealthImpactFactors |-> top3_factors]

\* a result whose fault_probability is never below the regressor's score
result_scored(component, fr, fault_info, explanation, timeline_prediction, top3_factors) ==
    [component |-> component,
     fault_probability |-> round(RMax(fr.combined_fault, clip(fr.xgb_fault_score, Zero, One)), 3),
     health_index |-> round(fr.health_index, 2),
     predicted_fault |-> fault_info.predicted_fault,
     affected_subpart |-> fault_info.affected_subpart,
     explanation |-> explanation,
     timeline_prediction |-> timeline_prediction,
     LSTM_ForecastScore |-> round(fr.lstm_forecast, 2),
     IsolationForestScore |-> fr.iso_score,
     XGBoost_FaultScore |-> round(fr.xgb_fault_score, 3),
     Top3_HealthImpactFactors |-> top3_factors]

\* The result mapping, before live_readings and asset_metadata are added.
result_of(component, fr, fault_info, explanation, timeline_prediction, top3_factors) ==
    [component |-> component,
     fault_probability |-> round(fr.combined_fault, 3),
     health_index |-> round(fr.health_index, 2),
     predicted_fault |-> fault_info.predicted_fault,
     affected_subpart |-> fault_info.affected_subpart,
     explanation |-> explanation,
     timeline_prediction |-> timeline_prediction,
     LSTM_ForecastScore |-> round(fr.lstm_forecast, 2),
     IsolationForestScore |-> fr.iso_score,
     XGBoost_FaultScore |-> round(fr.xgb_fault_score, 3),
     Top3_HealthImpactFactors |-> top3_factors]

-----------------------------------------------------------------------------
(* predict_transformer *)

FIELDS_transformer ==
    {"live_OilTemperature_C", "live_WindingTemperature_C", "live_LoadingPercent",
     "live_Hydrogen_ppm", "live_Acetylene_ppm", "live_Moisture_ppm",
     "live_OilLevelPercent", "live_TapPosition"}

legacy_data_transformer(live_data, installation_year) ==
    PyDict(
    [live_OilTemperature_C |->
        Get(live_data, "oilTemp", Get(live_data, "live_OilTemperature_C", PyNum(Num(60)))),
     live_WindingTemperature_C |->
        Get(live_data, "windingTemp", Get(live_data, "live_WindingTemperature_C", PyNum(Num(75)))),
     live_LoadingPercent |->
        Get(live_data, "loading", Get(live_data, "live_LoadingPercent", PyNum(Num(80)))),
     live_Hydrogen_ppm |->
        Get(live_data, "hydrogen", Get(live_data, "live_Hydrogen_ppm", PyNum(Num(50)))),
     live_Acetylene_ppm |->
        Get(live_data, "acetylene", Get(live_data, "live_Acetylene_ppm", PyNum(Q(5, 10)))),
     live_Moisture_ppm |->
        Get(live_data, "moisture", Get(live_data, "live_Moisture_ppm", PyNum(Num(18)))),
     live_OilLevelPercent |->
        Get(live_data, "oilLevel", Get(live_data, "live_OilLevelPercent", PyNum(Num(95)))),
     live_TapPosition |->
        Get(live_data, "tapPosition", Get(live_data, "live_TapPosition", PyNum(Num(9)))),
     installationYear |-> Or(installation_year, PyNum(Num(2010)))])

features_transformer(data) ==
    LET oil_temp_norm == Div(Item(data, "live_OilTemperature_C"), Num(100))
        wind_temp_norm == Div(Item(data, "live_WindingTemperature_C"), Num(120))
        loading_norm == Div(Item(data, "live_LoadingPercent"), Num(150))
        h2_norm == Div(Item(data, "live_Hydrogen_ppm"), Num(300))
        c2h2_norm == Div(Item(data, "live_Acetylene_ppm"), Num(50))
        moist_norm == Div(Item(data, "live_Moisture_ppm"), Num(30))
        level_norm == Div(Item(data, "live_OilLevelPercent"), Num(100))
        tap_norm == Div(Item(data, "live_TapPosition"), Num(17))
        asset_aging == aging_of(data)
        env_stress ==
            clip(Sum(<<Mul(Pct(25), oil_temp_norm), Mul(Pct(25), wind_temp_norm),
                       Mul(Pct(25), loading_norm), Mul(Pct(25), moist_norm)>>), Zero, One)
        fault_prob ==
            clip(Sum(<<Mul(Pct(30), oil_temp_norm), Mul(Pct(25), wind_temp_norm),
                       Mul(Pct(20), loading_norm), Mul(Pct(15), moist_norm),
                       Mul(Pct(10), asset_aging)>>), Zero, One)
        health_index ==
            clip(Sub(Num(100),
                     Sum(<<Mul(Num(20), oil_temp_norm), Mul(Num(20), wind_temp_norm),
                           Mul(Num(20), loading_norm), Mul(Num(20), moist_norm),
                           Mul(Num(20), asset_aging)>>)), Zero, Num(100))
    IN  [summed |-> <<<<"oil_temp_norm", oil_temp_norm>>, <<"wind_temp_norm", wind_temp_norm>>,
                      <<"loading_norm", loading_norm>>, <<"moist_norm", moist_norm>>>>,
         asset_aging |-> asset_aging,
         stress |-> env_stress,
         fault_prob |-> fault_prob,
         combined_fault |-> combine_fault(fault_prob, env_stress, asset_aging),
         health_index |-> health_index,
         impact_factors |->
            <<<<"OilTemperature", Mul(Num(20), oil_temp_norm)>>,
              <<"WindingTemperature", Mul(Num(20), wind_temp_norm)>>,
              <<"LoadingPercent", Mul(Num(20), loading_norm)>>,
              <<"Moisture", Mul(Num(20), moist_norm)>>,
              <<"Aging", Mul(Num(20), asset_aging)>>>>]

-----------------------------------------------------------------------------
(* predict_breaker *)

FIELDS_breaker == {"live_OperationTime_ms", "live_SF6Pressure_bar", "live_MotorCurrent_A"}

\* a breaker reading in which sf6Pressure is tried before sf6Density
legacy_data_breaker_swapped(live_data, installation_year) ==
    PyDict(
    [live_OperationTime_ms |->
        Get(live_data, "operationTime", Get(live_data, "live_OperationTime_ms", PyNum(Num(62)))),
     live_SF6Pressure_bar |->
        Get(live_data, "sf6Pressure",
            Get(live_data, "sf6Density",
                Get(live_data, "live_SF6Pressure_bar", PyNum(Q(63, 10))))),
     live_MotorCurrent_A |->
        Get(live_data, "motorCurrent", Get(live_data, "live_MotorCurrent_A", PyNum(Q(146, 10)))),
     installationYear |-> Or(installation_year, PyNum(Num(2014)))])

legacy_data_breaker(live_data, installation_year) ==
    PyDict(
    [live_OperationTime_ms |->
        Get(live_data, "operationTime", Get(live_data, "live_OperationTime_ms", PyNum(Num(62)))),
     live_SF6Pressure_bar |->
        Get(live_data, "sf6Density",
            Get(live_data, "sf6Pressure",
                Get(live_data, "live_SF6Pressure_bar", PyNum(Q(63, 10))))),
     live_MotorCurrent_A |->
        Get(live_data, "motorCurrent", Get(live_data, "live_MotorCurrent_A", PyNum(Q(146, 10)))),
     installationYear |-> Or(installation_year, PyNum(Num(2014)))])

features_breaker(data) ==
    LET op_time_norm == clip(Div(Item(data, "live_OperationTime_ms"), Num(200)), Zero, One)
        sf6_norm ==
            clip(Div(Sub(Item(data, "live_SF6Pressure_bar"), Q(55, 10)), Sub(Num(8), Q(55, 10))),
                 Zero, One)
        motor_current_norm == clip(Div(Item(data, "live_MotorCurrent_A"), Num(20)), Zero, One)
        asset_aging == aging_of(data)
        op_stress ==
            clip(Sum(<<Mul(Pct(40), op_time_norm), Mul(Pct(35), Sub(One, sf6_norm)),
                       Mul(Pct(25), motor_current_norm)>>), Zero, One)
        fault_prob ==
            clip(Sum(<<Mul(Pct(35), op_time_norm), Mul(Pct(30), Sub(One, sf6_norm)),
                       Mul(Pct(20), motor_current_norm), Mul(Pct(15), asset_aging)>>), Zero, One)
        health_index ==
            clip(Sub(Num(100),
                     Sum(<<Mul(Num(30), op_time_norm), Mul(Num(30), Sub(One, sf6_norm)),
                           Mul(Num(25), motor_current_norm), Mul(Num(15), asset_aging)>>)),
                 Zero, Num(100))
    IN  [summed |-> <<<<"op_time_norm", op_time_norm>>, <<"sf6_norm", sf6_norm>>,
                      <<"motor_current_norm", motor_current_norm>>>>,
         asset_aging |-> asset_aging,
         stress |-> op_stress,
         fault_prob |-> fault_prob,
         combined_fault |-> combine_fault(fault_prob, op_stress, asset_aging),
         health_index |-> health_index,
         impact_factors |->
            <<<<"OperationTime", Mul(Num(30), op_time_norm)>>,
              <<"SF6Pressure", Mul(Num(30), Sub(One, sf6_norm))>>,
              <<"MotorCurrent", Mul(Num(25), motor_current_norm)>>,
              <<"Aging", Mul(Num(15), asset_aging)>>>>]

-----------------------------------------------------------------------------
(* predict_busbar *)

FIELDS_busbar == {"live_BusVoltage_kV", "live_BusCurrent_A", "live_BusTemperature_C"}

legacy_data_busbar(live_data, installation_year) ==
    PyDict(
    [live_BusVoltage_kV |->
        Get(live_data, "busVoltage", Get(live_data, "live_BusVoltage_kV", PyNum(Num(400)))),
     live_BusCurrent_A |->
        Get(live_data, "busCurrent", Get(live_data, "live_BusCurrent_A", PyNum(Num(2500)))),
     live_BusTemperature_C |->
        Get(live_data, "busTemperature",
            Get(live_data, "busbarTemperature",
                Get(live_data, "live_BusTemperature_C", PyNum(Num(66))))),
     installationYear |-> Or(installation_year, PyNum(Num(2011)))])

features_busbar(data) ==
    LET voltage_norm ==
            clip(Div(Sub(Item(data, "live_BusVoltage_kV"), Num(380)), Num(420 - 380)), Zero, One)
        current_norm == clip(Div(Item(data, "live_BusCurrent_A"), Num(5000)), Zero, One)
        temp_norm == clip(Div(Item(data, "live_BusTemperature_C"), Num(100)), Zero, One)
        asset_aging == aging_of(data)
        thermal_stress ==
            clip(Sum(<<Mul(Pct(40), temp_norm), Mul(Pct(35), current_norm),
                       Mul(Pct(25), Sub(One, voltage_norm))>>), Zero, One)
        fault_prob ==
            clip(Sum(<<Mul(Pct(35), temp_norm), Mul(Pct(30), current_norm),
                       Mul(Pct(20), Sub(One, voltage_norm)), Mul(Pct(15), asset_aging)>>),
                 Zero, One)
        health_index ==
            clip(Sub(Num(100),
                     Sum(<<Mul(Num(30), temp_norm), Mul(Num(30), current_norm),
                           Mul(Num(20), Sub(One, voltage_norm)), Mul(Num(20), asset_aging)>>)),
                 Zero, Num(100))
    IN  [summed |-> <<<<"voltage_norm", voltage_norm>>, <<"current_norm", current_norm>>,
                      <<"temp_norm", temp_norm>>>>,
         asset_aging |-> asset_aging,
         stress |-> thermal_stress,
         fault_prob |-> fault_prob,
         combined_fault |-> combine_fault(fault_prob, thermal_stress, asset_aging),
         health_index |-> health_index,
         impact_factors |->
            <<<<"BusTemperature", Mul(Num(30), temp_norm)>>,
              <<"BusCurrent", Mul(Num(30), current_norm)>>,
              <<"BusVoltage", Mul(Num(20), Sub(One, voltage_norm))>>,
              <<"Aging", Mul(Num(20), asset_aging)>>>>]

-----------------------------------------------------------------------------
(* predict_bayline *)

FIELDS_bayline ==
    {"live_BusVoltage_kV", "live_LineCurrent_A", "live_ActivePower_MW",
     "live_ReactivePower_MVAR", "live_PowerFactor", "live_Frequency_Hz", "live_THD_percent"}

legacy_data_bayline(live_data, installation_year) ==
    PyDict(
    [live_BusVoltage_kV |->
        Get(live_data, "busVoltage", Get(live_data, "live_BusVoltage_kV", PyNum(Num(398)))),
     live_LineCurrent_A |->
        Get(live_data, "lineCurrent", Get(live_data, "live_LineCurrent_A", PyNum(Num(1780)))),
     live_ActivePower_MW |->
        Get(live_data, "mw", Get(live_data, "live_ActivePower_MW", PyNum(Num(640)))),
     live_ReactivePower_MVAR |->
        Get(live_data, "mvar", Get(live_data, "live_ReactivePower_MVAR", PyNum(Num(40)))),
     live_PowerFactor |->
        Get(live_data, "powerFactor", Get(live_data, "live_PowerFactor", PyNum(Q(94, 100)))),
     live_Frequency_Hz |->
        Get(live_data, "frequency", Get(live_data, "live_Frequency_Hz", PyNum(Q(5002, 100)))),
     live_THD_percent |->
        Get(live_data, "thd", Get(live_data, "live_THD_percent", PyNum(Q(26, 10)))),
     installationYear |-> Or(installation_year, PyNum(Num(2012)))])

features_bayline(data) ==
    LET voltage_norm ==
            clip(Div(Sub(Item(data, "live_BusVoltage_kV"), Num(380)), Num(420 - 380)), Zero, One)
        current_norm == clip(Div(Item(data, "live_LineCurrent_A"), Num(3000)), Zero, One)
        power_norm == clip(Div(Item(data, "live_ActivePower_MW"), Num(1500)), Zero, One)
        reactive_norm ==
            clip(Div(RAbs(Item(data, "live_ReactivePower_MVAR")), Num(500)), Zero, One)
        pf_norm == clip(Div(Sub(One, Item(data, "live_PowerFactor")), Q(5, 10)), Zero, One)
        freq_norm ==
            clip(Div(RAbs(Sub(Item(data, "live_Frequency_Hz"), Num(50))), Q(5, 10)), Zero, One)
        thd_norm == clip(Div(Item(data, "live_THD_percent"), Num(8)), Zero, One)
        asset_aging == aging_of(data)
        pq_stress ==
            clip(Sum(<<Mul(Pct(25), current_norm), Mul(Pct(20), power_norm),
                       Mul(Pct(20), pf_norm), Mul(Pct(15), freq_norm), Mul(Pct(10), thd_norm),
                       Mul(Pct(10), Sub(One, voltage_norm))>>), Zero, One)
        fault_prob ==
            clip(Sum(<<Mul(Pct(20), current_norm), Mul(Pct(20), power_norm),
                       Mul(Pct(15), pf_norm), Mul(Pct(15), freq_norm), Mul(Pct(15), thd_norm),
                       Mul(Pct(10), Sub(One, voltage_norm)), Mul(Pct(5), asset_aging)>>),
                 Zero, One)
        health_index ==
            clip(Sub(Num(100),
                     Sum(<<Mul(Num(20), current_norm), Mul(Num(20), power_norm),
                           Mul(Num(15), pf_norm), Mul(Num(15), freq_norm),
                           Mul(Num(15), thd_norm), Mul(Num(10), Sub(One, voltage_norm)),
                           Mul(Num(5), asset_aging)>>)), Zero, Num(100))
    IN  [summed |-> <<<<"voltage_norm", voltage_norm>>, <<"current_norm", current_norm>>,
                      <<"power_norm", power_norm>>, <<"pf_norm", pf_norm>>,
                      <<"freq_norm", freq_norm>>, <<"thd_norm", thd_norm>>>>,
         asset_aging |-> asset_aging,
         stress |-> pq_stress,
         fault_prob |-> fault_prob,
         combined_fault |-> combine_fault(fault_prob, pq_stress, asset_aging),
         health_index |-> health_index,
         impact_factors |->
            <<<<"LineCurrent", Mul(Num(20), current_norm)>>,
              <<"ActivePower", Mul(Num(20), power_norm)>>,
              <<"PowerFactor", Mul(Num(15), pf_norm)>>,
              <<"Frequency", Mul(Num(15), freq_norm)>>,
              <<"THD", Mul(Num(15), thd_norm)>>,
              <<"BusVoltage", Mul(Num(10), Sub(One, voltage_norm))>>,
              <<"Aging", Mul(Num(5), asset_aging)>>>>]

-----------------------------------------------------------------------------
(* The predict function of a model-backed module m: "transformer", "breaker",      *)
(* "busbar" or "bayline".  The four modules are the same code around their own     *)
(* constants, field tables and formulas.                                           *)

COMPONENT_KEY(m) ==
    CASE m = "transformer" -> "transformer" [] m = "breaker" -> "circuitBreaker"
      [] m = "busbar" -> "busbar" [] m = "bayline" -> "bayLines"

\* the key of the module's record in the realtime snapshot
LIVE_KEY(m) ==
    CASE m = "transformer" -> "transformer" [] m = "breaker" -> "breaker"
      [] m = "busbar" -> "busbar" [] m = "bayline" -> "bayLines"

\* the name the module passes to load_models
MODEL_NAME(m) ==
    CASE m = "transformer" -> "transformer" [] m = "breaker" -> "circuitBreaker"
      [] m = "busbar" -> "busbar" [] m = "bayline" -> "bayline"

\* the installation year a direct-mode input without one gets
DEFAULT_YEAR(m) ==
    CASE m = "transformer" -> 2010 [] m = "breaker" -> 2014
      [] m = "busbar" -> 2011 [] m = "bayline" -> 2012

FIELDS(m) ==
    CASE m = "transformer" -> FIELDS_transformer [] m = "breaker" -> FIELDS_breaker
      [] m = "busbar" -> FIELDS_busbar [] m = "bayline" -> FIELDS_bayline

legacy_data(m, live_data, installation_year) ==
    CASE m = "transformer" -> legacy_data_transformer(live_data, installation_year)
      [] m = "breaker" -> legacy_data_breaker(live_data, installation_year)
      [] m = "busbar" -> legacy_data_busbar(live_data, installation_year)
      [] m = "bayline" -> legacy_data_bayline(live_data, installation_year)

\* features whose impact-factor mapping leaves the aging term out
features_without_aging(m, data) ==
    LET f == CASE m = "transformer" -> features_transformer(data)
               [] m = "breaker" -> features_breaker(data)
               [] m = "busbar" -> features_busbar(data)
               [] m = "bayline" -> features_bayline(data)
    IN  [f EXCEPT !.impact_factors = SubSeq(@, 1, Len(@) - 1)]

features(m, data) ==
    CASE m = "transformer" -> features_transformer(data)
      [] m = "breaker" -> features_breaker(data)
      [] m = "busbar" -> features_busbar(data)
      [] m = "bayline" -> features_bayline(data)

\* fetch_firebase.fetch_realtime / fetch_asset_metadata against the stores of st:
\* without credentials the first use raises RuntimeError; no data gives {}.
fetch_realtime(st) == IF st.credentials THEN Returned(Or(st.live_root, EmptyDict))
                      ELSE Raised("RuntimeError")
fetch_asset_metadata(st) == IF st.credentials THEN Returned(Or(st.asset, EmptyDict))
                            ELSE Raised("RuntimeError")

\* data = input_data.copy(), with installationYear defaulted
direct_data(m, input_data) ==
    IF "installationYear" \in DOMAIN input_data.items THEN input_data
    ELSE PyDict([k \in DOMAIN input_data.items \cup {"installationYear"} |->
                    IF k = "installationYear"
                    THEN Get(input_data, "installationYear", PyNum(Num(DEFAULT_YEAR(m))))
                    ELSE input_data.items[k]])

\* STEP 5 to the return: fr holds the locals computed so far
predict_return(m, fr, top3_factors, g, live_readings, asset_metadata) ==
    [out |-> Returned(
                result_of(COMPONENT_KEY(m), fr,
                          pick_fault_from_probability(COMPONENT_KEY(m), fr.fault_prob, g.choice),
                          explanation_of(fr, top3_factors),
                          generate_timeline_prediction(fr.lstm_forecast, HOURS,
                                                       [i \in 1..HOURS |-> g.uniform]),
                          top3_factors)
                @@ [live_readings |-> live_readings, asset_metadata |-> asset_metadata]),
     frame |-> fr]

\* the impact factors sorted, once the locals of STEP 1 to STEP 4 are known
predict_ranked(m, fr, g, live_readings, asset_metadata) ==
    predict_return(m, fr, top3_of(fr.impact_factors), g, live_readings, asset_metadata)

\* STEP 1 to the return, once data is fixed and the models are loaded
predict_steps(m, data, a, g, live_readings, asset_metadata) ==
    IF ~(FIELDS(m) \cup {"installationYear"} \subseteq DOMAIN data.items)
    THEN [out |-> Raised("KeyError"), frame |-> NoFrame]
    ELSE predict_ranked(m,
                        features(m, data) @@
                            [data |-> data,
                             lstm_forecast |-> a.lstm,
                             iso_score |-> iso_to_score(a.iso),
                             xgb_fault_score |-> a.xgb],
                        g, live_readings, asset_metadata)

\* From load_models on; p is what the mode selection left: data in direct mode,
\* live_data and installation_year in legacy mode (None stands for a local that was
\* never assigned); models is what load_models gave.  `if not input_data:` is the
\* second test of the mode: it builds data from live_data.
predict_models(m, p, input_data, models, a, g) ==
    IF models.t = "raised" THEN [out |-> models, frame |-> NoFrame]
    ELSE IF ~Truthy(input_data) /\ p.live_data = PyNone
    THEN [out |-> Raised("UnboundLocalError"), frame |-> NoFrame]  \* live_data unassigned
    ELSE IF ~Truthy(input_data) /\ ~IsDict(p.live_data)
    THEN [out |-> Raised("AttributeError"), frame |-> NoFrame]     \* live_data.get
    ELSE IF Truthy(input_data) /\ p.data = PyNone
    THEN [out |-> Raised("UnboundLocalError"), frame |-> NoFrame]  \* data unassigned
    ELSE predict_steps(m,
                       IF ~Truthy(input_data)
                       THEN legacy_data(m, p.live_data, p.installation_year) ELSE p.data,
                       a, g, p.live_readings, p.asset_metadata)

\* the calls a load_models call adds: the call, the body when it ran, the bundle when
\* the body returned one
load_calls(looked) ==
    IF ~looked.body THEN <<"load_models">>
    ELSE IF looked.res.t = "raised" THEN <<"load_models", "load_models.body">>
    ELSE <<"load_models", "load_models.body", "load_models.loaded">>

\* predict once the mode is selected and load_models was called
predict_looked(m, sel, input_data, looked, a, g) ==
    predict_models(m, sel.res.val, input_data, looked.res, a, g)
    @@ [cache |-> looked.cache, calls |-> sel.calls \o load_calls(looked)]

\* sel is what the mode selection left: its outcome and the calls it made
predict_loaded(m, sel, input_data, st, cached, a, g) ==
    IF sel.res.t = "raised"
    THEN [out |-> sel.res, frame |-> NoFrame, cache |-> cached, calls |-> sel.calls]
    ELSE predict_looked(m, sel, input_data,
                        load_models_cached(MODEL_NAME(m), st.models, cached), a, g)

\* legacy mode, after the two fetches returned live_root and asset
legacy_mode(m, live_root, asset, merge) ==
    IF merge.t = "raised" THEN merge
    ELSE IF ~Truthy(merge.val.installationYear) /\ ~IsDict(merge.val.asset_info)
    THEN Raised("AttributeError")                                  \* asset_info.get on None
    ELSE Returned([data |-> PyNone,
                   live_data |-> merge.val.live,
                   installation_year |->
                       Or(merge.val.installationYear,
                          Get(merge.val.asset_info, "installationYear", PyNone)),
                   live_readings |-> merge.val.live,
                   asset_metadata |-> asset])

\* a direct mode that reports the copy of input_data it works on
direct_mode_copy(m, input_data) ==
    Returned([data |-> direct_data(m, input_data), live_data |-> PyNone,
              installation_year |-> PyNone,
              live_readings |-> direct_data(m, input_data), asset_metadata |-> EmptyDict])

\* the direct mode's outcome of the mode selection
direct_mode(m, input_data) ==
    Returned([data |-> direct_data(m, input_data), live_data |-> PyNone,
              installation_year |-> PyNone,
              live_readings |-> input_data, asset_metadata |-> EmptyDict])

\* the legacy mode's fetches and what follows them
legacy_fetch(m, st) ==
    IF ~st.credentials THEN [res |-> fetch_realtime(st), calls |-> <<"fetch_realtime">>]
    ELSE [res |-> legacy_mode(m, fetch_realtime(st).val, fetch_asset_metadata(st).val,
                              merge_inputs(Get(Or(fetch_realtime(st).val, EmptyDict),
                                               LIVE_KEY(m), EmptyDict),
                                           fetch_asset_metadata(st).val)),
          calls |-> <<"fetch_realtime", "fetch_asset_metadata">>]

\* a selection that takes any mapping, even an empty one, as supplied input
select_mode_not_none(m, area_code, substation_id, input_data, st) ==
    IF Truthy(input_data) /\ ~IsDict(input_data)
    THEN [res |-> Raised("AttributeError"), calls |-> <<>>]
    ELSE IF IsDict(input_data) THEN [res |-> direct_mode(m, input_data), calls |-> <<>>]
    ELSE IF ~Truthy(area_code) \/ ~Truthy(substation_id)
    THEN [res |-> Raised("ValueError"), calls |-> <<>>]
    ELSE legacy_fetch(m, st)

\* a selection that asks for the legacy arguments only when both are missing
select_mode_either(m, area_code, substation_id, input_data, st) ==
    IF Truthy(input_data) /\ ~IsDict(input_data)
    THEN [res |-> Raised("AttributeError"), calls |-> <<>>]
    ELSE IF Truthy(input_data) THEN [res |-> direct_mode(m, input_data), calls |-> <<>>]
    ELSE IF ~Truthy(area_code) /\ ~Truthy(substation_id)
    THEN [res |-> Raised("ValueError"), calls |-> <<>>]
    ELSE legacy_fetch(m, st)

\* the mode selection at the head of predict: its outcome, and the calls it made
select_mode(m, area_code, substation_id, input_data, st) ==
    IF Truthy(input_data) /\ ~IsDict(input_data)
    THEN [res |-> Raised("AttributeError"), calls |-> <<>>]   \* .copy(), .get on a non-mapping
    ELSE IF Truthy(input_data) THEN [res |-> direct_mode(m, input_data), calls |-> <<>>]
    ELSE IF ~Truthy(area_code) \/ ~Truthy(substation_id)
    THEN [res |-> Raised("ValueError"), calls |-> <<>>]
    ELSE legacy_fetch(m, st)

predict(m, area_code, substation_id, input_data, st, cached, a, g) ==
    predict_loaded(m, select_mode(m, area_code, substation_id, input_data, st), input_data,
                   st, cached, a, g)

predict_transformer(area_code, substation_id, input_data, st, cached, a, g) ==
    predict("transformer", area_code, substation_id, input_data, st, cached, a, g)
predict_breaker(area_code, substation_id, input_data, st, cached, a, g) ==
    predict("breaker", area_code, substation_id, input_data, st, cached, a, g)
predict_busbar(area_code, substation_id, input_data, st, cached, a, g) ==
    predict("busbar", area_code, substation_id, input_data, st, cached, a, g)
predict_bayline(area_code, substation_id, input_data, st, cached, a, g) ==
    predict("bayline", area_code, substation_id, input_data, st, cached, a, g)

-----------------------------------------------------------------------------
(* predict_shared: the placeholder response of predict_battery and predict_gis *)

_pick_fault(component, probability, choice) ==
    LET pair == random_choice(library_of(component), choice)
    IN  IF Lt(probability, FAULT_THRESHOLD)
        THEN [predicted_fault |-> "Normal", affected_subpart |-> NoneStr]
        ELSE [predicted_fault |-> pair[1], affected_subpart |-> pair[2]]

\* base = random.uniform(40, 110), then the same walk as generate_timeline_prediction
_timeline(base, draws) == timeline_loop(base, SubSeq(draws, 1, 24))

\* g.placeholder = the results of random.uniform(0.05, 0.95), random.uniform(-4, 4)
\* and random.uniform(40, 110), in the order the function draws them
build_placeholder_response(component, live, asset, g) ==
    LET fault_prob == round(g.placeholder[1], 2)
        health == round(Add(Sub(Num(100), Mul(fault_prob, Num(70))), g.placeholder[2]), 2)
        selection == _pick_fault(component, fault_prob, g.choice)
        explanation ==
            IF Lt(Pct(70), fault_prob)
            THEN "Heuristic blend of live drift, maintenance backlog, and temperature gradients."
            ELSE "Operating envelope remains inside learned band. Monitoring continues."
    IN  [component |-> component,
         fault_probability |-> fault_prob,
         health_index |-> RMax(Zero, RMin(Num(100), health)),
         predicted_fault |-> selection.predicted_fault,
         affected_subpart |-> selection.affected_subpart,
         explanation |-> explanation,
         timeline_prediction |-> _timeline(g.placeholder[3], [i \in 1..24 |-> g.uniform]),
         live_readings |-> live,
         asset_metadata |-> asset]

\* predict_battery.predict / predict_gis.predict, component = "battery" or "gis"
predict_placeholder(component, area_code, substation_id, st, g) ==
    IF fetch_realtime(st).t = "raised" THEN fetch_realtime(st)
    ELSE LET live_root == fetch_realtime(st).val
             live == Get(Or(live_root, EmptyDict), component, EmptyDict)
             asset == fetch_asset_metadata(st).val
             merge == merge_inputs(live, asset)
         IN  IF merge.t = "raised" THEN merge
             ELSE Returned(build_placeholder_response(component, merge.val.live, asset, g))

-----------------------------------------------------------------------------
(* The state outside a predict call *)


NoArts == [lstm |-> Zero, xgb |-> Zero, iso |-> 1]
NoCache == [k \in {} |-> NoReq]
NoRng == [choice |-> 1, uniform |-> Zero, placeholder |-> <<Zero, Zero, Zero>>]

PredictIdle ==
    /\ pc = "idle" /\ req = NoReq /\ frame = NoFrame /\ report = NotCalled /\ prev = NotCalled
    /\ arts = NoArts /\ rng = NoRng /\ cache = NoCache /\ calls = <<>>

MergeIdle == m_args = <<PyNone, PyNone>> /\ m_out = NotCalled
TimelineIdle == t_seed = Zero /\ t_out = NotCalled
MainIdle == d_args = NoReq /\ d_out = NotCalled

LOADERS == {"load_models", "load_artifacts"}
LOADED_NAMES == {"transformer", "circuitBreaker", "busbar", "bayline", "isolator"}
NoLoads == [l \in LOADERS, n \in LOADED_NAMES |-> 0]

RaceIdle == racers = NoReq

SimIdle == s_args = NoReq /\ s_out = NotCalled /\ s_cache = NoCache /\ loads = NoLoads

-----------------------------------------------------------------------------
(* The inputs of the predict calls the model makes *)

MaxEdits == 1

MODEL_BACKED == {"transformer", "breaker", "busbar", "bayline"}

\* The data keys of module m in a fixed order, and the newest alias of each in the
\* realtime snapshot.
ORDER(m) ==
    CASE m = "transformer" ->
            <<"live_OilTemperature_C", "live_WindingTemperature_C", "live_LoadingPercent",
              "live_Hydrogen_ppm", "live_Acetylene_ppm", "live_Moisture_ppm",
              "live_OilLevelPercent", "live_TapPosition">>
      [] m = "breaker" -> <<"live_OperationTime_ms", "live_SF6Pressure_bar", "live_MotorCurrent_A">>
      [] m = "busbar" -> <<"live_BusVoltage_kV", "live_BusCurrent_A", "live_BusTemperature_C">>
      [] m = "bayline" ->
            <<"live_BusVoltage_kV", "live_LineCurrent_A", "live_ActivePower_MW",
              "live_ReactivePower_MVAR", "live_PowerFactor", "live_Frequency_Hz",
              "live_THD_percent">>

CAMEL(m) ==
    CASE m = "transformer" ->
            <<"oilTemp", "windingTemp", "loading", "hydrogen", "acetylene", "moisture",
              "oilLevel", "tapPosition">>
      [] m = "breaker" -> <<"operationTime", "sf6Density", "motorCurrent">>
      [] m = "busbar" -> <<"busVoltage", "busCurrent", "busTemperature">>
      [] m = "bayline" -> <<"busVoltage", "lineCurrent", "mw", "mvar", "powerFactor",
                            "frequency", "thd">>

\* the middle alias of the two fields that have three names
MIDDLE(m) ==
    CASE m = "breaker" -> {<<"sf6Pressure", 2>>}
      [] m = "busbar" -> {<<"busbarTemperature", 3>>}
      [] OTHER -> {}

Y(y) == PyNum(Num(y))

\* Whole readings: the defaults of the legacy mode, a healthy one, one whose pre-fusion
\* probability is exactly 0.55, one far out of range, one with equal impact factors.
PROFILES(m) ==
    CASE m = "transformer" ->
            {[vals |-> <<Num(60), Num(75), Num(80), Num(50), Q(5, 10), Num(18), Num(95), Num(9)>>,
              year |-> PyNone],
             [vals |-> <<Num(20), Num(30), Num(30), Num(10), Q(1, 10), Num(5), Num(98), Num(5)>>,
              year |-> Y(2020)],
             [vals |-> <<Num(100), Num(120), Zero, Zero, Zero, Zero, Num(100), Num(1)>>,
              year |-> Y(2025)],
             [vals |-> <<Num(95), Num(110), Num(140), Num(250), Num(30), Num(28), Num(60), Num(15)>>,
              year |-> Y(1990)],
             [vals |-> <<Num(60), Num(72), Num(90), Num(50), Q(5, 10), Num(18), Num(95), Num(9)>>,
              year |-> Y(1985)]}
      [] m = "breaker" ->
            {[vals |-> <<Num(62), Q(63, 10), Q(146, 10)>>, year |-> PyNone],
             [vals |-> <<Num(20), Num(8), Num(2)>>, year |-> Y(2024)],
             [vals |-> <<Num(200), Num(8), Num(20)>>, year |-> Y(2025)],
             [vals |-> <<Num(250), Num(5), Num(25)>>, year |-> Y(1980)],
             [vals |-> <<Num(200), Q(55, 10), Num(12)>>, year |-> Y(1985)]}
      [] m = "busbar" ->
            {[vals |-> <<Num(400), Num(2500), Num(66)>>, year |-> PyNone],
             [vals |-> <<Num(420), Num(500), Num(20)>>, year |-> Y(2024)],
             [vals |-> <<Num(380), Zero, Num(100)>>, year |-> Y(2025)],
             [vals |-> <<Num(370), Num(6000), Num(120)>>, year |-> Y(1980)],
             [vals |-> <<Num(380), Num(5000), Num(100)>>, year |-> Y(1985)]}
      [] m = "bayline" ->
            {[vals |-> <<Num(398), Num(1780), Num(640), Num(40), Q(94, 100), Q(5002, 100),
                         Q(26, 10)>>, year |-> PyNone],
             [vals |-> <<Num(415), Num(300), Num(100), Num(5), Q(99, 100), Num(50), Q(5, 10)>>,
              year |-> Y(2024)],
             [vals |-> <<Num(420), Num(3000), Num(1500), Zero, Q(5, 10), Num(50), Zero>>,
              year |-> Y(2025)],
             [vals |-> <<Num(370), Num(3500), Num(1600), Num(-600), Q(3, 10), Num(49), Num(10)>>,
              year |-> Y(1980)],
             [vals |-> <<Num(420), Num(3000), Num(1500), Zero, Q(5, 10), Q(505, 10), Num(8)>>,
              year |-> Y(2025)]}

\* Single values an edit puts in place of a profile's: in and out of the expected range.
SAMPLES(m) ==
    CASE m = "transformer" ->
            <<{Num(150), Num(-10)}, {Num(130)}, {Num(165)}, {Num(400)}, {}, {Num(45)}, {}, {}>>
      [] m = "breaker" -> <<{Num(250)}, {Num(5), Num(9)}, {Num(30)}>>
      [] m = "busbar" -> <<{Num(350), Num(430)}, {Num(6000)}, {Num(120), Num(-5)}>>
      [] m = "bayline" ->
            <<{Num(430)}, {Num(3500)}, {Num(-100)}, {Num(-600)}, {Q(12, 10), Q(3, 10)},
              {Num(49), Num(51)}, {Num(10)}>>

YEAR_SAMPLES == {Y(1970), Y(2030)}

Absent == [t |-> "absent"]
NoEdit == [k \in {} |-> Absent]

\* the dict with keys[i] -> vals[i]
DictOf(keys, vals) ==
    PyDict([k \in {keys[i] : i \in DOMAIN keys} |->
               PyNum(vals[CHOOSE i \in DOMAIN keys : keys[i] = k])])

WithItem(d, k, v) ==
    PyDict([x \in DOMAIN d.items \cup {k} |-> IF x = k THEN v ELSE d.items[x]])

\* d after the edits e: a key is set, or removed when e gives Absent
Edited(d, e) ==
    PyDict([k \in (DOMAIN d.items \cup DOMAIN e) \ {x \in DOMAIN e : e[x] = Absent} |->
               IF k \in DOMAIN e THEN e[k] ELSE d.items[k]])

\* every set of at most n edits on distinct keys, each edit a <<key, value>> of pairs
RECURSIVE EditSets(_, _)
EditSets(pairs, n) ==
    IF n = 0 THEN {NoEdit}
    ELSE LET smaller == EditSets(pairs, n - 1)
         IN  smaller \cup
             {[k \in DOMAIN x[1] \cup {x[2][1]} |-> IF k = x[2][1] THEN x[2][2] ELSE x[1][k]] :
                 x \in {y \in smaller \X pairs : y[2][1] \notin DOMAIN y[1]}}

\* Direct mode: input_data is a profile under the data keys, edited.
DirectEdits(m) ==
    UNION {{<<ORDER(m)[i], PyNum(v)>> : v \in SAMPLES(m)[i]} \cup {<<ORDER(m)[i], Absent>>} :
              i \in DOMAIN ORDER(m)}
    \cup {<<"installationYear", y>> : y \in YEAR_SAMPLES}

DirectInputs(m) ==
    {Edited(IF p.year = PyNone THEN DictOf(ORDER(m), p.vals)
            ELSE WithItem(DictOf(ORDER(m), p.vals), "installationYear", p.year), e) :
        p \in PROFILES(m), e \in EditSets(DirectEdits(m), MaxEdits)}

\* the names the i-th raw field of predictor m is read under in legacy mode, in the
\* order the nested live_data.get calls try them
ALIASES(m, i) ==
    <<CAMEL(m)[i]>>
    \o (IF \E a \in MIDDLE(m) : a[2] = i
        THEN <<(CHOOSE a \in MIDDLE(m) : a[2] = i)[1]>> ELSE <<>>)
    \o <<ORDER(m)[i]>>

\* the fields whose aliases the readings below combine: the one with three names, or
\* the first
AliasFields(m) == IF MIDDLE(m) = {} THEN {1} ELSE {a[2] : a \in MIDDLE(m)}

\* Legacy readings that hold one field under every subset of its names, a different
\* value under each name, and no other field
AliasReadings(m) ==
    UNION {{PyDict([n \in {ALIASES(m, i)[k] : k \in S} |->
                       PyNum(Num(5 + (CHOOSE k \in S : ALIASES(m, i)[k] = n)))]) :
               S \in SUBSET (1 .. Len(ALIASES(m, i)))} : i \in AliasFields(m)}

\* Legacy mode: the snapshot holds a profile under the newest names, edited: a newest
\* name removed, or an older name added beside it.
LegacyEdits(m) ==
    UNION {{<<ORDER(m)[i], PyNum(v)>> : v \in SAMPLES(m)[i]} \cup {<<CAMEL(m)[i], Absent>>} :
              i \in DOMAIN ORDER(m)}
    \cup UNION {{<<a[1], PyNum(v)>> : v \in SAMPLES(m)[a[2]]} : a \in MIDDLE(m)}

MasterOf(year) == IF year = PyNone THEN EmptyDict ELSE PyDict([installationYear |-> year])

\* Asset documents: the year at the master level, at the asset level, at both, at
\* neither, and sections that are null.
ASSET_DOCS ==
    {EmptyDict,
     PyDict([master |-> EmptyDict]),
     PyDict([assets |-> PyDict([installationYear |-> Y(1995)])]),
     PyDict([master |-> PyDict([installationYear |-> Y(2005)]),
             assets |-> PyDict([installationYear |-> Y(1995)])]),
     PyDict([master |-> PyDict([installationYear |-> Y(2005)]), assets |-> PyNone]),
     PyDict([assets |-> PyNone]),
     PyDict([master |-> PyNone])}

GoodModels(m) ==
    LET c == model_config(MODEL_NAME(m))
    IN  [dirs |-> {c.folder},
         files |-> {<<c.folder, c.prefix, x>> :
                       x \in {"_LSTM.h5", "_XGBoost.json", "_IsolationForest.pkl"}},
         lstm_attempts |-> <<"ok", "ok">>]

\* Artifact stores with something wrong: a file missing, the folder missing, the
\* forecaster refusing to load.
BadModels(m) ==
    LET good == GoodModels(m)
    IN  {[good EXCEPT !.files = good.files \ {f}] : f \in good.files}
        \cup {[good EXCEPT !.dirs = {}]}
        \cup {[good EXCEPT !.lstm_attempts = x] :
                 x \in {<<"ValueError", "ok">>, <<"TypeError", "OSError">>, <<"OSError", "ok">>}}
        \* the forecaster refusing twice, a further attempt would load it
        \cup {[good EXCEPT !.lstm_attempts = x] :
                 x \in {<<"ValueError", "TypeError", "ok">>, <<"TypeError", "OSError", "ok">>,
                        <<"TypeError", "ok", "ok">>}}
        \* two things wrong at once
        \cup {[good EXCEPT !.files = good.files \ {f}, !.lstm_attempts = x] :
                 f \in {g \in good.files : g[3] # "_LSTM.h5"},
                 x \in {<<"ValueError", "ok">>, <<"TypeError", "OSError">>}}
        \cup {[good EXCEPT !.files = {f}] : f \in good.files}

NoStore(m) ==
    [credentials |-> TRUE, live_root |-> EmptyDict, asset |-> EmptyDict, models |-> GoodModels(m)]

Req(m, area_code, substation_id, input_data, st) ==
    [module |-> m, area_code |-> area_code, substation_id |-> substation_id,
     input_data |-> input_data, store |-> st]

AREA == PyStr("CHN001")
SUBSTATION == PyStr("CHN-482153")

DefaultInput(m) ==
    DictOf(ORDER(m), (CHOOSE p \in PROFILES(m) : p.year = PyNone).vals)

Requests(m) ==
    \* direct mode
    {Req(m, PyNone, PyNone, d, NoStore(m)) : d \in DirectInputs(m)}
    \* legacy mode, the year at the master level
    \cup {Req(m, AREA, SUBSTATION, PyNone,
              [NoStore(m) EXCEPT !.live_root = PyDict([k \in {LIVE_KEY(m)} |-> l.live]),
                                 !.asset = PyDict([master |-> MasterOf(l.year)])]) :
             l \in {[live |-> Edited(DictOf(CAMEL(m), p.vals), e), year |-> p.year] :
                       p \in PROFILES(m), e \in EditSets(LegacyEdits(m), MaxEdits)}}
    \* legacy mode, every asset document, the readings under the newest or the oldest names
    \cup {Req(m, AREA, SUBSTATION, i,
              [NoStore(m) EXCEPT !.live_root = r, !.asset = d]) :
             i \in {PyNone, EmptyDict},
             r \in {EmptyDict, PyDict([k \in {LIVE_KEY(m)} |-> DefaultInput(m)])},
             d \in ASSET_DOCS}
    \* legacy mode, one field under each combination of its names
    \cup {Req(m, AREA, SUBSTATION, PyNone,
              [NoStore(m) EXCEPT !.live_root = PyDict([k \in {LIVE_KEY(m)} |-> r])]) :
             r \in AliasReadings(m)}
    \* the arguments that select the mode
    \cup {Req(m, a, b, i, NoStore(m)) :
             a \in {PyNone, PyStr(""), AREA}, b \in {PyNone, SUBSTATION},
             i \in {PyNone, EmptyDict, DefaultInput(m)}}
    \* stores that fail
    \cup {Req(m, a, SUBSTATION, i, [NoStore(m) EXCEPT !.models = b]) :
             a \in {AREA}, i \in {PyNone, DefaultInput(m)}, b \in BadModels(m)}
    \cup {Req(m, AREA, SUBSTATION, i, [NoStore(m) EXCEPT !.credentials = FALSE]) :
             i \in {PyNone, DefaultInput(m)}}

\* The requests of each predictor, evaluated once.
TransformerRequests == Requests("transformer")
BreakerRequests == Requests("breaker")
BusbarRequests == Requests("busbar")
BaylineRequests == Requests("bayline")

PLACEHOLDERS == {"battery", "gis"}

PlaceholderRequests(component) ==
    {Req(component, AREA, SUBSTATION, PyNone,
         [NoStore("transformer") EXCEPT !.live_root = r, !.asset = d, !.credentials = c]) :
        r \in {EmptyDict, PyDict([k \in {component} |-> PyDict([voltage |-> PyNum(Num(54))])])},
        d \in ASSET_DOCS, c \in BOOLEAN}

AllPlaceholderRequests == UNION {PlaceholderRequests(c) : c \in PLACEHOLDERS}

\* What the deployed models answer: the forecast inside and outside [10, 150], the
\* detector's two labels.
ModelOutputs ==
    {[lstm |-> Q(725, 10), xgb |-> Q(2, 10), iso |-> 1],
     [lstm |-> Q(200126, 1000), xgb |-> Q(9, 10), iso |-> -1]}

\* What the generator gives next: the element random.choice picks, the value of every
\* random.uniform(-5, 5), the three draws of the placeholder response.
RngSamples ==
    {[choice |-> 1, uniform |-> Num(-5), placeholder |-> <<Q(5, 100), Num(4), Num(40)>>],
     [choice |-> 2, uniform |-> Num(5), placeholder |-> <<Q(95, 100), Num(-4), Num(110)>>],
     [choice |-> 3, uniform |-> Q(5, 1000), placeholder |-> <<Q(549, 1000), Zero, Q(755, 10)>>]}

-----------------------------------------------------------------------------
(* One process: a predict call, and the same call again after the artifacts were    *)
(* replaced by ones that answer differently.                                        *)

Init ==
    /\ pc = "idle" /\ req = NoReq /\ frame = NoFrame /\ report = NotCalled /\ prev = NotCalled
    /\ arts = NoArts /\ cache = NoCache /\ calls = <<>>
    /\ rng \in RngSamples
    /\ MergeIdle /\ TimelineIdle /\ MainIdle /\ SimIdle /\ RaceIdle

Outcome(res) ==
    /\ pc' = res.out.t
    /\ report' = res.out
    /\ frame' = res.frame
    /\ cache' = res.cache
    /\ calls' = res.calls

Call(r, a, res) ==
    /\ pc = "idle"
    /\ req' = r
    /\ arts' = a
    /\ Outcome(res)
    /\ UNCHANGED <<prev, rng, m_args, m_out, t_seed, t_out, d_args, d_out, s_args, s_out,
                   s_cache, loads, racers>>

Transformer ==
    \E r \in TransformerRequests, a \in ModelOutputs :
        Call(r, a, predict_transformer(r.area_code, r.substation_id, r.input_data,
                                       r.store, cache, a, rng))

Breaker ==
    \E r \in BreakerRequests, a \in ModelOutputs :
        Call(r, a, predict_breaker(r.area_code, r.substation_id, r.input_data,
                                   r.store, cache, a, rng))

Busbar ==
    \E r \in BusbarRequests, a \in ModelOutputs :
        Call(r, a, predict_busbar(r.area_code, r.substation_id, r.input_data,
                                  r.store, cache, a, rng))

Bayline ==
    \E r \in BaylineRequests, a \in ModelOutputs :
        Call(r, a, predict_bayline(r.area_code, r.substation_id, r.input_data,
                                   r.store, cache, a, rng))

Placeholder ==
    \E r \in AllPlaceholderRequests :
        Call(r, NoArts,
             [out |-> predict_placeholder(r.module, r.area_code, r.substation_id, r.store, rng),
              frame |-> NoFrame, cache |-> cache,
              calls |-> IF r.store.credentials THEN <<"fetch_realtime", "fetch_asset_metadata">>
                        ELSE <<"fetch_realtime">>])

\* The same request once more, the models answering differently.
Again ==
    /\ pc = "returned" /\ prev = NotCalled /\ req.module \in MODEL_BACKED
    /\ \E a \in ModelOutputs \ {arts} :
          /\ arts' = a
          /\ Outcome(predict(req.module, req.area_code, req.substation_id, req.input_data,
                             req.store, cache, a, rng))
    /\ prev' = report
    /\ UNCHANGED <<req, rng, m_args, m_out, t_seed, t_out, d_args, d_out, s_args, s_out,
                   s_cache, loads, racers>>

Next == Transformer \/ Breaker \/ Busbar \/ Bayline \/ Placeholder \/ Again

Spec == Init /\ [][Next]_vars

-----------------------------------------------------------------------------
(* merge_inputs on its own: every shape of live and asset *)

SECTIONS == {"assets", "master", "conditionAssessment", "maintenanceHistory", "operationHistory"}

SectionValues(k) ==
    CASE k = "assets" ->
            {PyNone, PyDict([transformer |-> PyDict([installationYear |-> PyNum(Num(1998))])])}
      [] k = "master" ->
            {PyNone, EmptyDict, PyDict([installationYear |-> PyNum(Num(2001))]),
             PyDict([installationYear |-> PyNone]), PyDict([areaName |-> PyNum(Num(7))])}
      [] k = "conditionAssessment" -> {PyNone, PyDict([oilQuality |-> PyNum(Num(3))])}
      [] k = "maintenanceHistory" -> {PyNone, PyList(<<PyNum(Num(2020))>>)}
      [] k = "operationHistory" -> {PyNone, PyList(<<PyNum(Num(2021)), PyNum(Num(2022))>>)}

AllSectionValues == UNION {SectionValues(k) : k \in SECTIONS}

AssetArgs ==
    {PyNone} \cup
    {PyDict(f) : f \in UNION {{g \in [S -> AllSectionValues] :
                                  \A k \in S : g[k] \in SectionValues(k)} : S \in SUBSET SECTIONS}}

LiveArgs == {PyNone, EmptyDict, PyDict([oilTemp |-> PyNum(Num(71))])}

InitMerge ==
    /\ PredictIdle /\ TimelineIdle /\ MainIdle /\ SimIdle /\ RaceIdle
    /\ m_args \in LiveArgs \X AssetArgs
    /\ m_out = NotCalled

MergeCall ==
    /\ m_out = NotCalled
    /\ m_out' = merge_inputs(m_args[1], m_args[2])
    /\ UNCHANGED <<pc, req, frame, report, prev, arts, rng, cache, calls, m_args, t_seed, t_out,
                   d_args, d_out, s_args, s_out, s_cache, loads, racers>>

NextMerge == MergeCall

SpecMerge == InitMerge /\ [][NextMerge]_vars

-----------------------------------------------------------------------------
(* generate_timeline_prediction on its own: every seed, every stream of draws *)

TimelineDraws == DrawStreams(HOURS)

InitTimeline ==
    /\ PredictIdle /\ MergeIdle /\ MainIdle /\ SimIdle /\ RaceIdle
    /\ t_seed \in SeedSamples
    /\ t_out = NotCalled

TimelineCall ==
    /\ t_out = NotCalled
    /\ \E draws \in TimelineDraws :
          t_out' = Returned(generate_timeline_prediction(t_seed, HOURS, draws))
    /\ UNCHANGED <<pc, req, frame, report, prev, arts, rng, cache, calls, m_args, m_out, t_seed,
                   d_args, d_out, s_args, s_out, s_cache, loads, racers>>

NextTimeline == TimelineCall

SpecTimeline == InitTimeline /\ [][NextTimeline]_vars

-----------------------------------------------------------------------------
(* run_predictor: the dispatcher process *)

COMPONENT_MODULES ==
    [bayLines |-> "predict_bayline",
     transformer |-> "predict_transformer",
     circuitBreaker |-> "predict_breaker",
     busbar |-> "predict_busbar",
     isolator |-> "predict_isolator",
     relay |-> "predict_relay",
     pmu |-> "predict_pmu",
     gis |-> "predict_gis",
     battery |-> "predict_battery",
     environment |-> "predict_environment"]

\* the predictor modules there are to import
IMPORTABLE ==
    {"predict_bayline", "predict_transformer", "predict_breaker", "predict_busbar",
     "predict_gis", "predict_battery"}

_load_predictor(component) ==
    IF component \notin DOMAIN COMPONENT_MODULES THEN Raised("ValueError")
    ELSE IF COMPONENT_MODULES[component] \notin IMPORTABLE THEN Raised("ModuleNotFoundError")
    ELSE Returned(COMPONENT_MODULES[component])

\* what a process writes to a stream: a line of JSON, the interpreter's traceback of
\* an exception nothing caught, argparse's usage message
JsonLine(obj) == [t |-> "json", obj |-> obj]
Traceback(exc) == [t |-> "traceback", exc |-> exc]
Usage == [t |-> "usage"]

Exit(stdout, stderr, status) == [stdout |-> stdout, stderr |-> stderr, status |-> status]

\* json.loads(stdin_data), stdin_data being text that is JSON for input.val or is not JSON
json_loads(input) ==
    IF input.t = "json" THEN Returned(input.val) ELSE Raised("JSONDecodeError")

\* json.dumps encodes v: mappings, lists, strings, numbers and None, nothing else
RECURSIVE Encodable(_)
Encodable(v) ==
    IF IsDict(v) THEN \A k \in DOMAIN v.items : Encodable(v.items[k])
    ELSE IF IsList(v) THEN \A i \in DOMAIN v.elems : Encodable(v.elems[i])
    ELSE v.t # "other"

\* predictor(input_data=...) or predictor(area_code=..., substation_id=...) of the
\* imported module; predict_gis and predict_battery take no input_data
call_predictor(module_name, by_input, area_code, substation_id, input_data, st, a, g) ==
    CASE module_name = "predict_transformer" ->
            predict_transformer(area_code, substation_id, input_data, st, NoCache, a, g).out
      [] module_name = "predict_breaker" ->
            predict_breaker(area_code, substation_id, input_data, st, NoCache, a, g).out
      [] module_name = "predict_busbar" ->
            predict_busbar(area_code, substation_id, input_data, st, NoCache, a, g).out
      [] module_name = "predict_bayline" ->
            predict_bayline(area_code, substation_id, input_data, st, NoCache, a, g).out
      [] module_name = "predict_gis" ->
            IF by_input THEN Raised("TypeError")
            ELSE predict_placeholder("gis", area_code, substation_id, st, g)
      [] module_name = "predict_battery" ->
            IF by_input THEN Raised("TypeError")
            ELSE predict_placeholder("battery", area_code, substation_id, st, g)

\* main from the except clause on: result is the outcome of the try block
main_print(args, result) ==
    IF result.t = "raised"
    THEN Exit(<<>>,
              <<JsonLine([error |-> result.exc, component |-> args.component.s]),
                Traceback(result.exc)>>, 1)
    ELSE IF ~(Encodable(result.val.live_readings) /\ Encodable(result.val.asset_metadata))
    THEN Exit(<<>>, <<Traceback("TypeError")>>, 1)                   \* json.dumps(result)
    ELSE Exit(<<JsonLine(result.val)>>, <<>>, 0)

\* the try block of main
main_try(args, module_name, st, a, g) ==
    IF args.stdin
    THEN IF args.stdin_data.t = "empty" THEN Raised("ValueError")
         ELSE IF json_loads(args.stdin_data).t = "raised" THEN json_loads(args.stdin_data)
         ELSE call_predictor(module_name, TRUE, PyNone, PyNone,
                             json_loads(args.stdin_data).val, st, a, g)
    ELSE IF ~Truthy(args.area) \/ ~Truthy(args.substation) THEN Raised("ValueError")
    ELSE call_predictor(module_name, FALSE, args.area, args.substation, PyNone, st, a, g)

\* main once the predictor is looked up
main_loaded(args, predictor, st, a, g) ==
    IF predictor.t = "raised" THEN Exit(<<>>, <<Traceback(predictor.exc)>>, 1)
    ELSE main_print(args, main_try(args, predictor.val, st, a, g))

\* main(argv) run as the process: args is what argv gives parse_args
main(args, st, a, g) ==
    IF args.component = PyNone THEN Exit(<<>>, <<Usage>>, 2)      \* --component is required
    ELSE main_loaded(args, _load_predictor(args.component.s), st, a, g)

\* component keys on the command line: those of COMPONENT_MODULES, one that is not
COMPONENTS ==
    {PyStr(c) : c \in DOMAIN COMPONENT_MODULES} \cup {PyStr("reactor"), PyNone}

\* the predict module behind a component key, for the stores of the run
ModuleOf(component) ==
    IF component = PyStr("circuitBreaker") THEN "breaker"
    ELSE IF component = PyStr("busbar") THEN "busbar"
    ELSE IF component = PyStr("bayLines") THEN "bayline"
    ELSE "transformer"

\* standard input: nothing, text that is not JSON, JSON documents
StdinSamples(m) ==
    {[t |-> "empty"], [t |-> "garbage"]}
    \cup {[t |-> "json", val |-> v] :
             v \in {PyNone, EmptyDict, PyList(<<PyNum(Num(60))>>), DefaultInput(m),
                    WithItem(DefaultInput(m), "installationYear", Y(1990))}}

\* the stores of a run: in order, without credentials, an artifact missing, a document
\* with a timestamp in it
MainStores(m) ==
    {[NoStore(m) EXCEPT !.live_root = PyDict([k \in {LIVE_KEY(m)} |-> DefaultInput(m)])],
     [NoStore(m) EXCEPT !.credentials = FALSE],
     [NoStore(m) EXCEPT !.models.files = {}],
     [NoStore(m) EXCEPT !.asset = PyDict([master |-> PyDict([installationYear |-> Y(2005)]),
                                          updatedAt |-> PyOther("DatetimeWithNanoseconds")])]}

Invocation(component, area, substation, stdin, stdin_data, st) ==
    [component |-> component, area |-> area, substation |-> substation, stdin |-> stdin,
     stdin_data |-> stdin_data, store |-> st]

MainInvocations ==
    UNION {{Invocation(c, a, SUBSTATION, FALSE, [t |-> "empty"], st) :
               a \in {PyNone, AREA}, st \in MainStores(ModuleOf(c))}
           \cup {Invocation(c, AREA, PyNone, FALSE, [t |-> "empty"], st) :
                    st \in MainStores(ModuleOf(c))}
           \cup {Invocation(c, PyNone, PyNone, TRUE, i, st) :
                    i \in StdinSamples(ModuleOf(c)), st \in MainStores(ModuleOf(c))} :
           c \in COMPONENTS}

InitMain ==
    /\ PredictIdle /\ MergeIdle /\ TimelineIdle /\ SimIdle /\ RaceIdle
    /\ d_args \in MainInvocations
    /\ d_out = NotCalled

MainCall ==
    /\ d_out = NotCalled
    /\ \E a \in ModelOutputs, g \in RngSamples : d_out' = main(d_args, d_args.store, a, g)
    /\ UNCHANGED <<pc, req, frame, report, prev, arts, rng, cache, calls, m_args, m_out,
                   t_seed, t_out, d_args, s_args, s_out, s_cache, loads, racers>>

NextMain == MainCall

SpecMain == InitMain /\ [][NextMain]_vars

-----------------------------------------------------------------------------
(* simulation_predictor *)

COMPONENT_MODEL_NAME ==
    [transformer |-> "transformer", bayLines |-> "bayline",
     circuitBreaker |-> "circuitBreaker", isolator |-> "isolator", busbar |-> "busbar"]

COMPONENT_ASSET_KEY ==
    [transformer |-> "transformers", bayLines |-> "powerFlowLines",
     circuitBreaker |-> "breakers", isolator |-> "isolators", busbar |-> "busbars"]

\* The simulation artifacts of a model name: sim.dirs are the folders under MODEL_ROOT
\* that exist, sim.files the <<folder, file>> that exist, sim.lstm_load the outcome of
\* tf.keras.models.load_model ("ok" or the exception it raises), sim.metadata what
\* metadata_<name>.json holds.
ARTIFACT_FILES == <<"xgb_model", "scaler_X", "meta_scaler", "ordinal_encoder">>

load_artifacts(model_name, sim) ==
    LET base_path == IF model_name \in sim.dirs /\ <<model_name, "xgb_model">> \in sim.files
                     THEN model_name ELSE "MODEL_ROOT"
        missing == {i \in DOMAIN ARTIFACT_FILES : <<base_path, ARTIFACT_FILES[i]>> \notin sim.files}
    IN  IF missing # {}
        THEN RaisedAt("FileNotFoundError",
                      <<base_path, ARTIFACT_FILES[CHOOSE i \in missing : \A j \in missing : i <= j]>>)
        ELSE IF sim.lstm_load # "ok" THEN RaisedAt(sim.lstm_load, <<base_path, "lstm_hybrid">>)
        ELSE IF <<base_path, "metadata">> \notin sim.files
        THEN RaisedAt("FileNotFoundError", <<base_path, "metadata">>)
        ELSE IF ~({"feature_cols", "targets"} \subseteq DOMAIN sim.metadata) THEN Raised("KeyError")
        ELSE Returned([model_name |-> model_name,
                       base_path |-> base_path,
                       feature_cols |-> sim.metadata.feature_cols,
                       target_cols |-> sim.metadata.targets,
                       seq_len |-> IF "used_seq_len" \in DOMAIN sim.metadata
                                   THEN sim.metadata.used_seq_len
                                   ELSE IF "seq_len" \in DOMAIN sim.metadata
                                   THEN sim.metadata.seq_len ELSE 1])

\* @lru_cache(maxsize=None) around load_artifacts
load_artifacts_cached(model_name, sim, cached) ==
    IF model_name \in DOMAIN cached THEN Looked(Returned(cached[model_name]), FALSE, cached)
    ELSE lru_store(model_name, load_artifacts(model_name, sim), cached)

NoEntries == [k \in {} |-> PyNone]

\* the keys of a mapping in one order (the model keeps no insertion order; the
\* documents it draws have no two fields that flatten to one name)
RECURSIVE KeySeq(_)
KeySeq(S) == IF S = {} THEN <<>> ELSE LET k == CHOOSE x \in S : TRUE IN <<k>> \o KeySeq(S \ {k})

\* _flatten_dict(prefix, obj, out): the entries it adds to out
RECURSIVE _flatten_dict(_, _)
RECURSIVE flatten_items(_, _, _)
flatten_items(prefix, obj, keys) ==
    IF keys = <<>> THEN NoEntries
    ELSE flatten_items(prefix, obj, Tail(keys)) @@
         _flatten_dict(IF prefix = "" THEN Head(keys) ELSE prefix \o "_" \o Head(keys),
                       obj.items[Head(keys)])

_flatten_dict(prefix, obj) ==
    IF IsDict(obj) THEN flatten_items(prefix, obj, KeySeq(DOMAIN obj.items))
    ELSE IF IsList(obj) THEN NoEntries
    ELSE (prefix :> obj)

PyNaN == [t |-> "nan"]

\* float(x): a number, or the exception for None and for text that is no number
IsFloatable(v) == v.t = "num"

\* the first of installationYear, installYear, commissionedYear that flat_asset has,
\* else None; then flat_master's installationYear when that is None
install_year_of(flat_asset, flat_master) ==
    LET found == IF "installationYear" \in DOMAIN flat_asset THEN flat_asset["installationYear"]
                 ELSE IF "installYear" \in DOMAIN flat_asset THEN flat_asset["installYear"]
                 ELSE IF "commissionedYear" \in DOMAIN flat_asset
                 THEN flat_asset["commissionedYear"]
                 ELSE PyNone
    IN  IF found # PyNone THEN found
        ELSE IF "installationYear" \in DOMAIN flat_master THEN flat_master["installationYear"]
        ELSE PyNone

\* the loop over artifacts.feature_cols
layered_row(feature_cols, panel_inputs, flat_asset, flat_master) ==
    [col \in {feature_cols[i] : i \in DOMAIN feature_cols} |->
        IF col \in DOMAIN panel_inputs.items THEN panel_inputs.items[col]
        ELSE IF col \in DOMAIN flat_asset THEN flat_asset[col]
        ELSE IF col \in DOMAIN flat_master THEN flat_master[col]
        ELSE PyNaN]

\* the ageYears block: the age derived from the installation year is written into the row
derived_age(row, feature_cols, install_year, now_year) ==
    IF "ageYears" \in {feature_cols[i] : i \in DOMAIN feature_cols} /\ IsFloatable(install_year)
    THEN [row EXCEPT !["ageYears"] = PyNum(RMax(Zero, Sub(Num(now_year), install_year.val)))]
    ELSE row

\* _build_feature_row once master, assets and asset_obj are known
build_row(artifacts, asset_obj, master, panel_inputs, now_year) ==
    Returned(derived_age(layered_row(artifacts.feature_cols, panel_inputs,
                                     _flatten_dict("", asset_obj), _flatten_dict("", master)),
                         artifacts.feature_cols,
                         install_year_of(_flatten_dict("", asset_obj), _flatten_dict("", master)),
                         now_year))

\* pd.Timestamp.now().year is now_year
_build_feature_row(component, artifacts, asset_metadata, panel_inputs, now_year) ==
    LET master == Or(Get(asset_metadata, "master", PyNone), EmptyDict)
        assets == Or(Get(asset_metadata, "assets", PyNone), EmptyDict)
        asset_key == COMPONENT_ASSET_KEY[component]
    IN  IF ~IsDict(assets) THEN Raised("AttributeError")                    \* assets.get
        ELSE IF IsList(Get(assets, asset_key, PyNone)) /\ Truthy(Get(assets, asset_key, PyNone))
        THEN build_row(artifacts, Or(assets.items[asset_key].elems[1], EmptyDict), master,
                       panel_inputs, now_year)
        ELSE build_row(artifacts, EmptyDict, master, panel_inputs, now_year)

\* the result mapping: a value per target, then trueHealth and overallHealth mirrored
mirror_health(result) ==
    IF "trueHealth" \in DOMAIN result /\ "overallHealth" \notin DOMAIN result
    THEN ("overallHealth" :> result["trueHealth"]) @@ result
    ELSE IF "overallHealth" \in DOMAIN result /\ "trueHealth" \notin DOMAIN result
    THEN ("trueHealth" :> result["overallHealth"]) @@ result
    ELSE result

\* a result that is the targets' values and nothing else
result_unmirrored(target_cols, raw_pred) ==
    [c \in {target_cols[i] : i \in DOMAIN target_cols} |->
        raw_pred[CHOOSE i \in DOMAIN target_cols : target_cols[i] = c]]

\* raw_pred is what the hybrid model answers for the row, one value per target
result_of_targets(target_cols, raw_pred) ==
    mirror_health([c \in {target_cols[i] : i \in DOMAIN target_cols} |->
                      raw_pred[CHOOSE i \in DOMAIN target_cols : target_cols[i] = c]])

\* the warning object printed when fetch_asset_metadata raises
FetchWarning(substation_id, exc) ==
    JsonLine([warning |-> "fetch_asset_metadata_failed", substation_id |-> substation_id,
              error |-> exc])

\* what a predict_component_from_panel call leaves: its outcome, what it printed to
\* standard output, its feature row, the load_artifacts call, asset_metadata
Panel(out, stdout, row, looked, asset_metadata) ==
    [out |-> out, stdout |-> stdout, row |-> row, cache |-> looked.cache,
     body |-> looked.body, loaded |-> looked.res.t = "returned",
     asset_metadata |-> asset_metadata]

\* from _build_feature_row on
panel_predict(artifacts, row, stdout, looked, asset_metadata, raw_pred) ==
    IF row.t = "raised" THEN Panel(row, stdout, NoFrame, looked, asset_metadata)
    ELSE Panel(Returned(result_of_targets(artifacts.target_cols, raw_pred)), stdout, row.val,
               looked, asset_metadata)

\* from the fetch on: artifacts are loaded
panel_fetch(component, substation_id, panel_inputs, st, looked, asset_metadata, stdout, now) ==
    panel_predict(looked.res.val,
                  _build_feature_row(component, looked.res.val, asset_metadata, panel_inputs,
                                     now.year),
                  stdout, looked, asset_metadata, now.raw_pred)

panel_loaded(component, substation_id, panel_inputs, st, looked, now) ==
    IF looked.res.t = "raised" THEN Panel(looked.res, <<>>, NoFrame, looked, PyNone)
    ELSE IF fetch_asset_metadata(st).t = "raised"
    THEN panel_fetch(component, substation_id, panel_inputs, st, looked, EmptyDict,
                     <<FetchWarning(substation_id, fetch_asset_metadata(st).exc)>>, now)
    ELSE panel_fetch(component, substation_id, panel_inputs, st, looked,
                     fetch_asset_metadata(st).val, <<>>, now)

\* now is what the call finds outside its arguments: now.year the clock's year,
\* now.raw_pred the hybrid model's answer
predict_component_from_panel(component, substation_id, panel_inputs, st, cached, now) ==
    IF component \notin DOMAIN COMPONENT_MODEL_NAME
    THEN Panel(Raised("ValueError"), <<>>, NoFrame, Looked(NotCalled, FALSE, cached), PyNone)
    ELSE panel_loaded(component, substation_id, panel_inputs, st,
                      load_artifacts_cached(COMPONENT_MODEL_NAME[component], st.sim, cached),
                      now)

\* _cli run as the process, after parse_args: args.inputs is the --inputs text
cli_print(args, panel) ==
    IF panel.out.t = "raised"
    THEN Exit(panel.stdout \o <<JsonLine([error |-> panel.out.exc, component |-> args.component,
                                          substation |-> args.substation])>>, <<>>, 1)
    ELSE Exit(panel.stdout \o <<JsonLine(panel.out.val)>>, <<>>, 0)

\* _cli run as the process: args is what parse_args gives, args.inputs the --inputs
\* text; panel is what the predict_component_from_panel call left, when made
_cli(args, panel) ==
    IF args.inputs.t # "json" \/ ~IsDict(args.inputs.val)
    THEN Exit(<<JsonLine([error |-> "Invalid inputs JSON"])>>, <<>>, 1)
    ELSE cli_print(args, panel)

\* feature_cols and targets of the metadata the model draws
FEATURE_COLS ==
    {<<"ambientTemperature", "transformerLoading", "ratingMVA", "voltageClass",
       "nameplate_make", "ageYears">>,
     <<"ambientTemperature", "ratingMVA", "voltageClass">>}

TARGETS ==
    {<<"thermalHealth", "trueHealth">>, <<"overallHealth", "rul_optimistic_months">>,
     <<"trueHealth", "overallHealth", "thermalHealth">>, <<"thermalHealth">>}

GoodSim(model_name, feature_cols, targets) ==
    [dirs |-> {model_name},
     files |-> {<<model_name, f>> :
                   f \in {ARTIFACT_FILES[i] : i \in DOMAIN ARTIFACT_FILES} \cup {"metadata"}},
     lstm_load |-> "ok",
     metadata |-> [feature_cols |-> feature_cols, targets |-> targets, seq_len |-> 12]]

\* the artifacts under MODEL_ROOT itself, metadata naming used_seq_len
RootSim(model_name, feature_cols, targets) ==
    [dirs |-> {},
     files |-> {<<"MODEL_ROOT", f>> :
                   f \in {ARTIFACT_FILES[i] : i \in DOMAIN ARTIFACT_FILES} \cup {"metadata"}},
     lstm_load |-> "ok",
     metadata |-> [feature_cols |-> feature_cols, targets |-> targets, used_seq_len |-> 6]]

\* simulation artifacts with something wrong
BadSims(model_name) ==
    LET good == GoodSim(model_name, <<"ambientTemperature">>, <<"trueHealth">>)
    IN  {[good EXCEPT !.files = good.files \ {<<model_name, "scaler_X">>}],
         [good EXCEPT !.files = good.files \ {<<model_name, "metadata">>}],
         [good EXCEPT !.lstm_load = "OSError"],
         [good EXCEPT !.metadata = [feature_cols |-> <<"ambientTemperature">>]]}

PANEL_INPUTS ==
    {EmptyDict,
     PyDict([ambientTemperature |-> PyNum(Num(34)), transformerLoading |-> PyNum(Num(76))]),
     PyDict([ambientTemperature |-> PyNum(Num(34)), ratingMVA |-> PyNum(Num(100)),
             ageYears |-> PyNum(Num(5))]),
     PyDict([voltageClass |-> PyStr("220kV"), nameplate_make |-> PyStr("BHEL")])}

FirstTransformer ==
    PyDict([ratingMVA |-> PyNum(Num(500)), nameplate |-> PyDict([make |-> PyStr("ABB")]),
            installationYear |-> PyNum(Num(2010)), ageYears |-> PyNum(Num(3)),
            tags |-> PyList(<<PyStr("unit-1")>>)])

SIM_DOCS ==
    {EmptyDict,
     PyDict([master |-> PyDict([installationYear |-> PyNum(Num(2000)),
                                voltageClass |-> PyStr("400kV"),
                                ratingMVA |-> PyNum(Num(315))])]),
     PyDict([master |-> PyDict([installationYear |-> PyNum(Num(2000)),
                                voltageClass |-> PyStr("400kV")]),
             assets |-> PyDict([transformers |->
                                   PyList(<<FirstTransformer,
                                            PyDict([ratingMVA |-> PyNum(Num(250))])>>)])]),
     PyDict([master |-> PyDict([voltageClass |-> PyStr("400kV")]),
             assets |-> PyDict([transformers |-> PyList(<<>>),
                                powerFlowLines |->
                                   PyList(<<PyDict([installYear |-> PyNone,
                                                    ratingMVA |-> PyNum(Num(90))])>>)])]),
     PyDict([master |-> PyNone, assets |-> PyNone]),
     PyDict([assets |-> PyList(<<FirstTransformer>>)])}

\* the clock's year and the hybrid model's answer
NOWS ==
    {[year |-> 2026, raw_pred |-> <<Q(875, 10), Q(86, 100), Num(120)>>],
     [year |-> 2026, raw_pred |-> <<Q(3, 10), Q(91, 100), Q(55, 100)>>]}

SimStore(credentials, asset, sim) == [credentials |-> credentials, asset |-> asset, sim |-> sim]

SimInvocation(component, inputs, st, now) ==
    [component |-> component, substation |-> "CHN-482153", inputs |-> inputs, store |-> st,
     now |-> now]

SimInvocations ==
    {SimInvocation(c, [t |-> "json", val |-> i],
                   SimStore(cr, d, GoodSim(COMPONENT_MODEL_NAME[c], f, t)), n) :
        c \in {"transformer", "bayLines"}, i \in PANEL_INPUTS, cr \in BOOLEAN, d \in SIM_DOCS,
        f \in FEATURE_COLS, t \in TARGETS, n \in NOWS}
    \cup {SimInvocation(c, i, SimStore(cr, EmptyDict, sim), n) :
             c \in {"transformer", "reactor"},
             i \in {[t |-> "garbage"], [t |-> "json", val |-> PyList(<<>>)],
                    [t |-> "json", val |-> EmptyDict]},
             cr \in BOOLEAN,
             sim \in BadSims("transformer")
                     \cup {RootSim("transformer", <<"ambientTemperature">>, <<"trueHealth">>)},
             n \in NOWS}

InitSim ==
    /\ PredictIdle /\ MergeIdle /\ TimelineIdle /\ MainIdle
    /\ s_args \in SimInvocations
    /\ s_out = NotCalled /\ s_cache = NoCache /\ loads = NoLoads /\ RaceIdle

\* the panel call of the current run
PanelOfRun ==
    predict_component_from_panel(s_args.component, s_args.substation, s_args.inputs.val,
                                 s_args.store, s_cache, s_args.now)

Cli ==
    /\ d_out = NotCalled
    /\ IF s_args.inputs.t = "json" /\ IsDict(s_args.inputs.val)
       THEN /\ s_out' = PanelOfRun
            /\ s_cache' = PanelOfRun.cache
            /\ d_out' = _cli(s_args, PanelOfRun)
       ELSE /\ d_out' = _cli(s_args, NotCalled)
            /\ UNCHANGED <<s_out, s_cache>>
    /\ UNCHANGED <<pc, req, frame, report, prev, arts, rng, cache, calls, m_args, m_out,
                   t_seed, t_out, d_args, s_args, loads, racers>>

NextSim == Cli

SpecSim == InitSim /\ [][NextSim]_vars

-----------------------------------------------------------------------------
(* One process that serves predict requests and panel requests one after another,   *)
(* the artifact files on disk changing between the requests.                       *)

\* how many loads of one bundle the model follows
MaxLoads == 2

\* the predictor's artifacts under MODEL_ROOT itself, the component folder absent
RootModels(m) ==
    LET c == model_config(MODEL_NAME(m))
    IN  [dirs |-> {},
         files |-> {<<"MODEL_ROOT", c.prefix, x>> :
                       x \in {"_LSTM.h5", "_XGBoost.json", "_IsolationForest.pkl"}},
         lstm_attempts |-> <<"ok", "ok">>]

\* the artifact stores a request of the sequence may find
LoadStores(m) ==
    {GoodModels(m), RootModels(m),
     [GoodModels(m) EXCEPT !.lstm_attempts = <<"ValueError", "ok">>],
     [GoodModels(m) EXCEPT !.files = {}],
     [GoodModels(m) EXCEPT !.lstm_attempts = <<"OSError", "ok">>]}

\* the predictors whose requests the sequence mixes
LoadModules == {"transformer", "breaker"}

LoadRequests ==
    UNION {{Req(m, PyNone, PyNone, DefaultInput(m), [NoStore(m) EXCEPT !.models = b]) :
               b \in LoadStores(m)}
           \cup {Req(m, AREA, SUBSTATION, PyNone, [NoStore(m) EXCEPT !.models = b]) :
                    b \in {GoodModels(m), RootModels(m)}}
           \cup {Req(m, PyNone, PyNone, PyNone, NoStore(m))} : m \in LoadModules}

LoadOutput == [lstm |-> Q(725, 10), xgb |-> Q(2, 10), iso |-> 1]

LoadPanels ==
    {SimInvocation(c, [t |-> "json", val |-> EmptyDict], SimStore(TRUE, EmptyDict, sim),
                   [year |-> 2026, raw_pred |-> <<Q(875, 10), Q(86, 100), Num(120)>>]) :
        c \in {"transformer", "reactor"},
        sim \in {GoodSim("transformer", <<"ambientTemperature">>, <<"trueHealth">>),
                 RootSim("transformer", <<"ambientTemperature", "ratingMVA">>,
                         <<"overallHealth">>),
                 [GoodSim("transformer", <<"ambientTemperature">>, <<"trueHealth">>)
                     EXCEPT !.lstm_load = "OSError"]}}

\* the body of loader ran to its end for name: one more load, when loaded
Counted(loader, name, loaded) ==
    IF loaded
    THEN /\ loads[loader, name] < MaxLoads
         /\ loads' = [loads EXCEPT ![loader, name] = @ + 1]
    ELSE UNCHANGED loads

\* the load_models call of a predict call ran the body, which returned a bundle
BodyLoaded(made) ==
    \E i \in DOMAIN made : made[i] = "load_models.loaded"

InitLoads ==
    /\ PredictIdle /\ MergeIdle /\ TimelineIdle /\ MainIdle /\ SimIdle /\ RaceIdle

ServeCall(r, res) ==
    /\ req' = r
    /\ arts' = LoadOutput
    /\ Outcome(res)
    /\ Counted("load_models", MODEL_NAME(r.module), BodyLoaded(res.calls))
    /\ UNCHANGED <<prev, rng, m_args, m_out, t_seed, t_out, d_args, d_out, s_args, s_out,
                   s_cache, racers>>

\* a predict request is served
Serve ==
    \E r \in LoadRequests :
        ServeCall(r, predict(r.module, r.area_code, r.substation_id, r.input_data, r.store,
                             cache, LoadOutput, rng))

ServePanelCall(i, panel) ==
    /\ s_args' = i
    /\ s_out' = panel
    /\ s_cache' = panel.cache
    /\ IF i.component \in DOMAIN COMPONENT_MODEL_NAME
       THEN Counted("load_artifacts", COMPONENT_MODEL_NAME[i.component],
                    panel.body /\ panel.loaded)
       ELSE UNCHANGED loads
    /\ UNCHANGED <<pc, req, frame, report, prev, arts, rng, cache, calls, m_args, m_out,
                   t_seed, t_out, d_args, d_out, racers>>

\* a panel request is served
ServePanel ==
    \E i \in LoadPanels :
        ServePanelCall(i, predict_component_from_panel(i.component, i.substation, i.inputs.val,
                                                       i.store, s_cache, i.now))

NextLoads == Serve \/ ServePanel

SpecLoads == InitLoads /\ [][NextLoads]_vars

-----------------------------------------------------------------------------
(* Several threads of one process call load_models for one component name while the *)
(* cache is cold.  A call of the lru_cache wrapper is three steps, each under the   *)
(* interpreter lock: the lookup, the body, and the store of the body's result.      *)

\* how many callers race
MaxCallers == 3

Callers == 1 .. MaxCallers

\* the bundle a body run by caller t built: the dict of load_models; id stands for the
\* identity of the dict object, one per run of the body
bundle_of(res, t) ==
    IF res.t = "returned" THEN Returned(res.val @@ [id |-> t]) ELSE res

Race(name, store) ==
    [name |-> name, store |-> store, pc |-> [t \in Callers |-> "call"],
     got |-> [t \in Callers |-> NotCalled], later |-> NotCalled]

Races ==
    UNION {{Race(MODEL_NAME(m), b) : b \in LoadStores(m)} : m \in LoadModules}

InitRace ==
    /\ PredictIdle /\ MergeIdle /\ TimelineIdle /\ MainIdle /\ SimIdle
    /\ racers \in Races

RaceStep(next) ==
    /\ racers' = next
    /\ UNCHANGED <<pc, req, frame, report, prev, arts, rng, calls, m_args, m_out,
                   t_seed, t_out, d_args, d_out, s_args, s_out, s_cache, loads>>

\* the wrapper looks the key up: a hit returns the cached bundle, a miss goes to the body
Lookup(t) ==
    /\ racers.pc[t] = "call"
    /\ IF racers.name \in DOMAIN cache
       THEN RaceStep([racers EXCEPT !.pc[t] = "done",
                                    !.got[t] = Returned(cache[racers.name])])
       ELSE RaceStep([racers EXCEPT !.pc[t] = "body"])
    /\ UNCHANGED cache

\* the body of load_models runs to its end
Body(t) ==
    /\ racers.pc[t] = "body"
    /\ IF load_models(racers.name, racers.store).t = "returned"
       THEN RaceStep([racers EXCEPT !.pc[t] = "store",
                                    !.got[t] = bundle_of(load_models(racers.name, racers.store), t)])
       ELSE RaceStep([racers EXCEPT !.pc[t] = "done",
                                    !.got[t] = load_models(racers.name, racers.store)])
    /\ UNCHANGED cache

\* the wrapper stores the body's result and returns it
Store(t) ==
    /\ racers.pc[t] = "store"
    /\ cache' = lru_store(racers.name, racers.got[t], cache).cache
    /\ RaceStep([racers EXCEPT !.pc[t] = "done"])

Settled == \A t \in Callers : racers.pc[t] = "done"

\* a call made after every racing call has returned
Later ==
    /\ racers # NoReq /\ Settled /\ racers.later = NotCalled
    /\ cache' = load_models_cached(racers.name, racers.store, cache).cache
    /\ RaceStep([racers EXCEPT
                    !.later = bundle_of(load_models_cached(racers.name, racers.store, cache).res,
                                        0)])

NextRace == (\E t \in Callers : Lookup(t) \/ Body(t) \/ Store(t)) \/ Later

SpecRace == InitRace /\ [][NextRace]_vars

-----------------------------------------------------------------------------
(* Properties of the predict functions *)

\* a model-backed predict has returned its report
Reported == pc = "returned" /\ req.module \in MODEL_BACKED

\* a placeholder predict (battery, gis) has returned its report
PlaceholderReported == pc = "returned" /\ req.module \in PLACEHOLDERS

Unit(x) == InRange(x, Zero, One)

\* the normalized features of the frame that lie outside [0, 1]
OutOfUnit == {i \in 1..Len(frame.summed) : ~Unit(frame.summed[i][2])}

\* C1: in every model-backed predictor, in both modes and for every reading, each
\* normalized feature, the stress score and asset_aging lie in [0, 1] where they
\* enter the weighted sums.
C1_NormsInUnit ==
    Reported => /\ OutOfUnit = {}
                /\ Unit(frame.stress)
                /\ Unit(frame.asset_aging)

\* C2: the health_index of every returned report, placeholder reports included,
\* lies in [0, 100] and its fault_probability lies in [0, 1].
C2_ReportRanges ==
    pc = "returned" => /\ InRange(report.val.health_index, Zero, Num(100))
                       /\ Unit(report.val.fault_probability)

\* C2 at the edge: a model-backed predictor has returned a report whose health_index
\* is 0 and whose fault_probability is 1, both held there by the clipping.
C2_Witness ==
    Reported /\ report.val.health_index = Zero /\ report.val.fault_probability = One

\* the (predicted_fault, affected_subpart) pair of the returned report
ReportedPair == <<report.val.predicted_fault, report.val.affected_subpart>>

\* the pair is what the claim allows for a pre-fusion probability p and a library entry
Selected(p, entry) ==
    IF Lt(p, Q(55, 100)) THEN ReportedPair = <<"Normal", NoneStr>>
    ELSE \E i \in 1..Len(entry) : ReportedPair = entry[i]

\* C3: the fault is selected by the pre-fusion probability alone: below 0.55 the report
\* says "Normal" with no subpart, at 0.55 and above its pair is one of the pairs of the
\* component's FAULT_LIBRARY entry.  Placeholders select by their own fault_prob.
C3_FaultSelection ==
    /\ Reported => Selected(frame.fault_prob, FAULT_LIBRARY[report.val.component])
    /\ PlaceholderReported =>
            Selected(report.val.fault_probability, FAULT_LIBRARY[report.val.component])

\* C3 where the two probabilities disagree: the pre-fusion one is at or above 0.55, the
\* reported combined one is below it, and a fault of the library is reported.
C3_Witness ==
    /\ Reported
    /\ ~Lt(frame.fault_prob, Q(55, 100))
    /\ Lt(report.val.fault_probability, Q(55, 100))
    /\ report.val.predicted_fault # "Normal"

\* i ranks before j among the impact factors f: a larger value, or an equal value
\* declared earlier
Before(f, i, j) == Lt(f[j][2], f[i][2]) \/ (f[i][2] = f[j][2] /\ i < j)

\* the number of factors that rank before factor i
Rank(f, i) == Cardinality({j \in 1..Len(f) : Before(f, j, i)})

\* C4: Top3_HealthImpactFactors names the 3 largest impact factors in descending order
\* of value, a factor declared earlier coming first among equal values.
C4_Top3 ==
    Reported =>
        /\ Len(report.val.Top3_HealthImpactFactors) = 3
        /\ \A k \in 1..3 :
              \E i \in 1..Len(frame.impact_factors) :
                  /\ frame.impact_factors[i][1] = report.val.Top3_HealthImpactFactors[k]
                  /\ Rank(frame.impact_factors, i) = k - 1

\* C4 with a tie for the third slot: the factor in the third place has the value of a
\* factor declared after it, which is left out.
C4_Witness ==
    /\ Reported
    /\ \E i, j \in 1..Len(frame.impact_factors) :
          /\ i < j
          /\ frame.impact_factors[i][2] = frame.impact_factors[j][2]
          /\ Rank(frame.impact_factors, i) = 2
          /\ report.val.Top3_HealthImpactFactors[3] = frame.impact_factors[i][1]

\* the transformer readings of the worked example, installationYear 2010
ExampleData ==
    PyDict([live_OilTemperature_C |-> PyNum(Num(60)),
            live_WindingTemperature_C |-> PyNum(Num(75)),
            live_LoadingPercent |-> PyNum(Num(80)),
            live_Hydrogen_ppm |-> PyNum(Num(50)),
            live_Acetylene_ppm |-> PyNum(Q(5, 10)),
            live_Moisture_ppm |-> PyNum(Num(18)),
            live_OilLevelPercent |-> PyNum(Num(95)),
            live_TapPosition |-> PyNum(Num(9)),
            installationYear |-> PyNum(Num(2010))])

ExampleReported == Reported /\ req.module = "transformer" /\ frame.data = ExampleData

\* C7: the transformer predictor on the readings of the worked example computes
\* asset_aging 0.375 and reports a health_index within 0.01 of 45.33.
C7_WorkedExample ==
    ExampleReported =>
        /\ frame.asset_aging = Q(375, 1000)
        /\ Le(RAbs(Sub(report.val.health_index, Q(4533, 100))), Q(1, 100))

\* C7 in legacy mode: the stores hold no reading, every field took its default, and
\* the data are those of the worked example.
C7_Witness == ExampleReported /\ req.input_data = PyNone

\* C8: the reported health_index does not depend on the three model scores: the same
\* request run again with the models answering differently reports the same
\* health_index.
C8_HealthIgnoresModels ==
    (Reported /\ prev.t = "returned") => report.val.health_index = prev.val.health_index

\* C8 with all three scores changed between the two runs of a request
C8_Witness ==
    /\ Reported /\ prev.t = "returned"
    /\ report.val.LSTM_ForecastScore # prev.val.LSTM_ForecastScore
    /\ report.val.XGBoost_FaultScore # prev.val.XGBoost_FaultScore
    /\ report.val.IsolationForestScore # prev.val.IsolationForestScore

-----------------------------------------------------------------------------
(* Properties of generate_timeline_prediction *)

TimelineReturned == t_out.t = "returned"

\* 24 entries, each in [10, 150]
InBand(timeline) ==
    /\ Len(timeline) = 24
    /\ \A i \in 1..Len(timeline) : InRange(timeline[i], Num(10), Num(150))

\* C5: for every seed generate_timeline_prediction(seed, 24) returns 24 entries, each
\* in [10, 150], and so the timeline_prediction of every returned report has 24 entries
\* in [10, 150].  The first conjunct speaks of SpecTimeline's calls, the second of the
\* reports of Spec.
C5_TimelineBand ==
    /\ TimelineReturned => InBand(t_out.val)
    /\ pc = "returned" => InBand(report.val.timeline_prediction)

\* C5 with the lower clamp at work: a seed below 10 whose walk was held at 10 and
\* later left it.
C5_Witness ==
    /\ TimelineReturned /\ Lt(t_seed, Num(10))
    /\ t_out.val[1] = Num(10)
    /\ \E i \in 1..Len(t_out.val) : Lt(Num(10), t_out.val[i])

\* C6 as stated: the first entry of the timeline differs from the seed by at most 5.
C6_FirstStepWithin5 ==
    TimelineReturned => Le(RAbs(Sub(t_out.val[1], t_seed)), Num(5))

\* C6, amended: the first entry differs by at most 5.005 from the seed clamped to
\* [10, 150]: a step of at most 5 from the clamped seed, then the rounding to 2 decimals.
C6_FirstStepFromClampedSeed ==
    TimelineReturned =>
        Le(RAbs(Sub(t_out.val[1], RMax(Num(10), RMin(Num(150), t_seed)))), Q(5005, 1000))

\* C6 with a seed above the band: the first entry is 150, more than 5 below the seed.
C6_Witness ==
    /\ TimelineReturned /\ Lt(Num(155), t_seed)
    /\ t_out.val[1] = Num(150)

-----------------------------------------------------------------------------
(* Properties of merge_inputs *)

MergeCalled == m_out # NotCalled

\* section k of the asset argument if the mapping has it, else dflt
SectionOr(k, dflt) ==
    IF k \in DOMAIN m_args[2].items THEN m_args[2].items[k] ELSE dflt

\* the seven defaults
MergeDefaults ==
    [live |-> EmptyDict, asset_info |-> EmptyDict, condition |-> EmptyDict,
     maintenanceHistory |-> EmptyList, operationHistory |-> EmptyList,
     installationYear |-> PyNone, metadata |-> EmptyDict]

\* C9: for an asset mapping that lacks some or all sections (its master section, when
\* present, being a mapping), merge_inputs returns the mapping in which each present
\* section is passed through and each absent one takes its default; merge_inputs({}, {})
\* returns exactly the seven defaults.
C9_MergeDefaulting ==
    /\ (MergeCalled /\ IsDict(m_args[2]) /\ IsDict(SectionOr("master", EmptyDict))) =>
          /\ m_out.t = "returned"
          /\ m_out.val =
                [live |-> IF m_args[1] = PyNone THEN EmptyDict ELSE m_args[1],
                 asset_info |-> SectionOr("assets", EmptyDict),
                 condition |-> SectionOr("conditionAssessment", EmptyDict),
                 maintenanceHistory |-> SectionOr("maintenanceHistory", EmptyList),
                 operationHistory |-> SectionOr("operationHistory", EmptyList),
                 installationYear |->
                    IF "installationYear" \in DOMAIN SectionOr("master", EmptyDict).items
                    THEN SectionOr("master", EmptyDict).items["installationYear"]
                    ELSE PyNone,
                 metadata |-> SectionOr("master", EmptyDict)]
    /\ (MergeCalled /\ m_args = <<EmptyDict, EmptyDict>>) => m_out = Returned(MergeDefaults)

\* C9 with sections of both kinds: live readings, a master section with a year and a
\* condition section are present, both histories are absent.
C9_Witness ==
    /\ MergeCalled /\ IsDict(m_args[1]) /\ IsDict(m_args[2])
    /\ DOMAIN m_args[1].items # {}
    /\ DOMAIN m_args[2].items = {"master", "conditionAssessment"}
    /\ IsDict(m_args[2].items["master"])
    /\ "installationYear" \in DOMAIN m_args[2].items["master"].items
    /\ m_out.t = "returned"
    /\ m_out.val.maintenanceHistory = EmptyList

\* C10: merge_inputs raises nothing, whatever of live, asset and the sections of asset
\* is None, empty, missing or null.
C10_MergeNeverRaises == MergeCalled => m_out.t = "returned"

-----------------------------------------------------------------------------
(* Properties of load_models and of the head of predict *)

\* the mode selection of the current request returned, so predict went on to load_models
LoadReached ==
    /\ pc # "idle" /\ req.module \in MODEL_BACKED
    /\ select_mode(req.module, req.area_code, req.substation_id, req.input_data,
                   req.store).res.t = "returned"

\* the three artifact paths of the current request, in the order load_models loads them
ArtifactPaths ==
    LET config == model_config(MODEL_NAME(req.module))
        model_dir == IF config.folder \in req.store.models.dirs THEN config.folder
                     ELSE "MODEL_ROOT"
    IN  <<<<model_dir, config.prefix, "_LSTM.h5">>,
          <<model_dir, config.prefix, "_XGBoost.json">>,
          <<model_dir, config.prefix, "_IsolationForest.pkl">>>>

\* artifact k of the current request has no file
Missing(k) == ArtifactPaths[k] \notin req.store.models.files

\* the artifacts loaded before artifact k are there and load
LoadsBefore(k) ==
    /\ \A j \in 1..(k - 1) : ~Missing(j)
    /\ k > 1 => \E i \in 1..2 : /\ req.store.models.lstm_attempts[i] = "ok"
                                 /\ \A j \in 1..(i - 1) :
                                       req.store.models.lstm_attempts[j]
                                           \in {"ValueError", "TypeError"}

\* C11: when the file of one of the three artifacts is missing, the predict call that
\* reached load_models returns no report and nothing is cached for the component; the
\* error is FileNotFoundError naming the missing path when the artifacts loaded before
\* the missing one are there and load.
C11_MissingArtifact ==
    \A k \in 1..3 :
        (LoadReached /\ Missing(k)) =>
            /\ pc = "raised" /\ report.t = "raised"
            /\ MODEL_NAME(req.module) \notin DOMAIN cache
            /\ LoadsBefore(k) => report = RaisedAt("FileNotFoundError", ArtifactPaths[k])

\* C11 for the artifact loaded last: the forecaster and the regressor loaded, the
\* detector's file is missing, and the call raised FileNotFoundError naming that file.
C11_Witness ==
    /\ LoadReached /\ Missing(3) /\ LoadsBefore(3)
    /\ report = RaisedAt("FileNotFoundError", ArtifactPaths[3])
    /\ report.path[3] = "_IsolationForest.pkl"

\* the current request supplies neither input_data nor both legacy arguments
NeitherMode ==
    /\ pc # "idle" /\ req.module \in MODEL_BACKED
    /\ ~Truthy(req.input_data)
    /\ ~Truthy(req.area_code) \/ ~Truthy(req.substation_id)

\* C12: a model-backed predict called with neither input_data nor both of area_code
\* and substation_id raises ValueError, having made no fetch and no load_models call
\* and having cached nothing.
C12_UsageError ==
    NeitherMode => /\ report = Raised("ValueError")
                   /\ calls = <<>>
                   /\ cache = NoCache

\* C12 with one legacy argument only: area_code is given, substation_id is not, the
\* input_data is an empty mapping, and the call raised ValueError.
C12_Witness ==
    /\ NeitherMode /\ Truthy(req.area_code) /\ req.input_data = EmptyDict
    /\ report = Raised("ValueError")

-----------------------------------------------------------------------------
(* Properties of the dispatcher *)

MainDone == d_out # NotCalled

\* the lines of JSON on a stream
JsonLines(stream) == {i \in 1..Len(stream) : stream[i].t = "json"}

\* the run ended in success: one line of JSON, a report, on standard output, nothing on
\* standard error, exit status 0
MainSucceeded ==
    /\ Len(d_out.stdout) = 1 /\ d_out.stdout[1].t = "json"
    /\ "health_index" \in DOMAIN d_out.stdout[1].obj
    /\ d_out.stderr = <<>>
    /\ d_out.status = 0

\* an {error, component} object is written to standard error, and is the one object
\* written there
ErrorObjectWritten ==
    /\ Cardinality(JsonLines(d_out.stderr)) = 1
    /\ \A i \in JsonLines(d_out.stderr) :
          /\ DOMAIN d_out.stderr[i].obj = {"error", "component"}
          /\ d_out.stderr[i].obj.component = d_args.component.s

\* the run ended in failure: the error object on standard error, nothing on standard
\* output, a non-zero exit status
MainFailed == ErrorObjectWritten /\ d_out.stdout = <<>> /\ d_out.status # 0

\* C13: every run of main ends in success (one JSON report on standard output, nothing
\* on standard error, status 0) or in failure (one {error, component} object on
\* standard error, nothing on standard output, a non-zero status), never in both.
C13_TwoOutcomes ==
    MainDone => /\ MainSucceeded \/ MainFailed
                /\ ~(MainSucceeded /\ MainFailed)

\* the component key of the run is not one the dispatcher can serve: COMPONENT_MODULES
\* does not have it, or names a module there is not
Unsupported ==
    /\ d_args.component # PyNone
    /\ \/ d_args.component.s \notin DOMAIN COMPONENT_MODULES
       \/ COMPONENT_MODULES[d_args.component.s] \notin IMPORTABLE

\* C14: a run with an unsupported or unknown component key writes an {error, component}
\* object to standard error and exits with a non-zero status.
C14_UnknownComponent ==
    (MainDone /\ Unsupported) => ErrorObjectWritten /\ d_out.status # 0

-----------------------------------------------------------------------------
(* Properties of the simulation predictor *)

\* predict_component_from_panel built its feature row
RowBuilt == s_out # NotCalled /\ s_out.row # NoFrame

\* the feature columns of the artifacts of the current call
ColumnsOfRun ==
    {s_args.store.sim.metadata.feature_cols[i] :
        i \in DOMAIN s_args.store.sim.metadata.feature_cols}

\* the first asset of the component's collection in the metadata the call used, or {}
FirstAssetOfRun ==
    LET assets == Or(Get(s_out.asset_metadata, "assets", PyNone), EmptyDict)
        collection == Get(assets, COMPONENT_ASSET_KEY[s_args.component], PyNone)
    IN  IF IsList(collection) /\ collection.elems # <<>>
        THEN Or(collection.elems[1], EmptyDict) ELSE EmptyDict

\* the flattened asset-level and master-level values of the current call
FlatAssetOfRun == _flatten_dict("", FirstAssetOfRun)
FlatMasterOfRun ==
    _flatten_dict("", Or(Get(s_out.asset_metadata, "master", PyNone), EmptyDict))

\* the value the layering gives column col: panel, else asset level, else master
\* level, else missing
Layered(col) ==
    IF col \in DOMAIN s_args.inputs.val.items THEN s_args.inputs.val.items[col]
    ELSE IF col \in DOMAIN FlatAssetOfRun THEN FlatAssetOfRun[col]
    ELSE IF col \in DOMAIN FlatMasterOfRun THEN FlatMasterOfRun[col]
    ELSE PyNaN

\* C17: in the feature row, the value of every column of the schema is the panel's when
\* the panel supplies the column, otherwise the flattened value of the first asset,
\* otherwise the flattened master-level value, otherwise missing; so a value the panel
\* supplies is never replaced.
C17_RowLayering ==
    RowBuilt => /\ DOMAIN s_out.row = ColumnsOfRun
                /\ \A col \in ColumnsOfRun : s_out.row[col] = Layered(col)

\* a command-line run of the simulation predictor whose asset-metadata fetch failed
\* (the artifacts were loaded, so the fetch was made; there are no credentials)
FetchFailedRun ==
    /\ d_out # NotCalled /\ s_out # NotCalled
    /\ s_out.cache # NoCache
    /\ ~s_args.store.credentials

\* the warning objects on a stream
Warnings(stream) ==
    {i \in 1..Len(stream) : stream[i].t = "json" /\ "warning" \in DOMAIN stream[i].obj}

\* C18: when the asset-metadata fetch fails in the simulation-panel path, the failure is
\* caught, the asset metadata is the empty mapping, the request returns a prediction,
\* and the warning is written to a stream other than standard output, which carries
\* the result.
C18_WarningOnSideChannel ==
    FetchFailedRun =>
        /\ s_out.out.t = "returned"
        /\ s_out.asset_metadata = EmptyDict
        /\ d_out.status = 0
        /\ d_out.stdout = <<JsonLine(s_out.out.val)>>
        /\ Warnings(d_out.stderr) # {}
        /\ Warnings(d_out.stdout) = {}

\* predict_component_from_panel returned its result
PanelReturned == s_out # NotCalled /\ s_out.out.t = "returned"

\* trueHealth and overallHealth are both absent from the result, or both present
BothOrNeither ==
    ("trueHealth" \in DOMAIN s_out.out.val) <=> ("overallHealth" \in DOMAIN s_out.out.val)

\* the targets of the artifacts of the current call
TargetsOfRun ==
    {s_args.store.sim.metadata.targets[i] : i \in DOMAIN s_args.store.sim.metadata.targets}

\* C19 as stated: in every returned result trueHealth and overallHealth are both absent,
\* or both present with equal values.
C19_HealthEqual ==
    PanelReturned =>
        /\ BothOrNeither
        /\ "trueHealth" \in DOMAIN s_out.out.val =>
              s_out.out.val["trueHealth"] = s_out.out.val["overallHealth"]

\* C19, amended: both are absent or both are present; when exactly one of them is a
\* model target the other has its value; when both are targets each has the value the
\* model gave it.
C19_HealthMirrored ==
    PanelReturned =>
        /\ BothOrNeither
        /\ DOMAIN s_out.out.val = TargetsOfRun \cup
              (IF {"trueHealth", "overallHealth"} \cap TargetsOfRun # {}
               THEN {"trueHealth", "overallHealth"} ELSE {})
        /\ \A i \in DOMAIN s_args.store.sim.metadata.targets :
              s_out.out.val[s_args.store.sim.metadata.targets[i]] = s_args.now.raw_pred[i]
        /\ Cardinality({"trueHealth", "overallHealth"} \cap TargetsOfRun) = 1 =>
              s_out.out.val["trueHealth"] = s_out.out.val["overallHealth"]

\* C19 with one of the two a target: overallHealth is a target, trueHealth is not, and
\* the result has trueHealth with overallHealth's value.
C19_Witness ==
    /\ PanelReturned
    /\ "overallHealth" \in TargetsOfRun /\ "trueHealth" \notin TargetsOfRun
    /\ "trueHealth" \in DOMAIN s_out.out.val
    /\ s_out.out.val["trueHealth"] = s_out.out.val["overallHealth"]

-----------------------------------------------------------------------------
(* The loaders' caches over a sequence of requests *)

\* a bundle that is cached stays cached and is the same bundle after the step
BundlesKept(before, after) ==
    \A n \in DOMAIN before : n \in DOMAIN after /\ after[n] = before[n]

\* the step is a predict call (it leaves the panel's variables alone) that reached
\* load_models
LoadModelsCalled ==
    /\ UNCHANGED <<s_args, s_out, s_cache>>
    /\ req' # NoReq
    /\ \E i \in DOMAIN calls' : calls'[i] = "load_models"

\* the step is a panel call (it leaves the predictors' variables alone) that reached
\* load_artifacts
LoadArtifactsCalled ==
    /\ UNCHANGED <<req, report, calls, cache>>
    /\ s_args' # NoReq
    /\ s_args'.component \in DOMAIN COMPONENT_MODEL_NAME

\* one step of the process: cached bundles are kept, and a call for a name whose bundle
\* is cached gets its bundle from the cache, the body of the loader not run
CachedStep ==
    /\ BundlesKept(cache, cache') /\ BundlesKept(s_cache, s_cache')
    /\ (LoadModelsCalled /\ MODEL_NAME(req'.module) \in DOMAIN cache)
          => \A i \in DOMAIN calls' : calls'[i] # "load_models.body"
    /\ (LoadArtifactsCalled /\ COMPONENT_MODEL_NAME[s_args'.component] \in DOMAIN s_cache)
          => ~s_out'.body /\ s_out'.loaded

\* C15: over any sequence of predict and panel requests in one process the bundle of a
\* component is loaded at most once by each loader: once it is cached, every later
\* load_models / load_artifacts call for the component returns the cached bundle, which
\* never changes, and the artifact files are not read again.
C15_LoadedOnce ==
    /\ [](\A l \in LOADERS, n \in LOADED_NAMES : loads[l, n] <= 1)
    /\ [][CachedStep]_vars

\* both loaders served a request from the cache after the artifact files had changed:
\* the cached bundle is not the one the files of the request would give
C15_Witness ==
    /\ report.t = "returned" /\ s_out # NotCalled /\ s_out.out.t = "returned"
    /\ \E i \in DOMAIN calls : calls[i] = "load_models"
    /\ \A i \in DOMAIN calls : calls[i] # "load_models.body"
    /\ load_models(MODEL_NAME(req.module), req.store.models)
          # Returned(cache[MODEL_NAME(req.module)])
    /\ ~s_out.body
    /\ load_artifacts(COMPONENT_MODEL_NAME[s_args.component], s_args.store.sim)
          # Returned(s_cache[COMPONENT_MODEL_NAME[s_args.component]])
    /\ loads["load_models", MODEL_NAME(req.module)] = 1
    /\ loads["load_artifacts", COMPONENT_MODEL_NAME[s_args.component]] = 1

-----------------------------------------------------------------------------
(* The cold-start race on load_models *)

\* o is a returned bundle with the three models in it
CompleteBundle(o) == o.t = "returned" /\ {"lstm", "xgb", "iso"} \subseteq DOMAIN o.val

\* the artifacts of the racing component are on disk and load
Loadable == load_models(racers.name, racers.store).t = "returned"

RaceInv ==
    racers # NoReq =>
       /\ DOMAIN cache \subseteq {racers.name}
       /\ \A t \in Callers :
             racers.pc[t] = "done" =>
                /\ Loadable => CompleteBundle(racers.got[t])
                /\ ~Loadable => racers.got[t] = load_models(racers.name, racers.store)
       /\ racers.name \in DOMAIN cache =>
             \E t \in Callers : racers.got[t] = Returned(cache[racers.name])
                                  /\ cache[racers.name].id = t
       /\ (Settled /\ Loadable) => racers.name \in DOMAIN cache
       /\ (racers.later # NotCalled /\ Loadable) => racers.later = Returned(cache[racers.name])

\* C16: callers that race on load_models for one component while the cache is cold each
\* obtain a complete bundle (lstm, xgb and iso) when the artifacts load; the cache ends
\* up holding one bundle for the component, built by one of the callers, and the bundle
\* stored first is never replaced; a call made after the race has settled returns the
\* stored bundle.
C16_ColdStartRace == []RaceInv /\ [][racers.name \in DOMAIN cache => cache' = cache]_vars

\* the race has settled with a duplicate load: two callers ran the body and each got its
\* own bundle, one of the two is the cached one, and the call made afterwards got it
C16_Witness ==
    /\ racers # NoReq /\ Settled /\ racers.later # NotCalled
    /\ \E t, u \in Callers :
          /\ t # u
          /\ CompleteBundle(racers.got[t]) /\ racers.got[t].val.id = t
          /\ CompleteBundle(racers.got[u]) /\ racers.got[u].val.id = u
          /\ cache[racers.name] = racers.got[t].val
          /\ racers.later = racers.got[t]

-----------------------------------------------------------------------------
(* Sparse readings *)

\* the default of each raw field, in the order of ORDER(m)
DEFAULTS(m) ==
    CASE m = "transformer" ->
            <<Num(60), Num(75), Num(80), Num(50), Q(5, 10), Num(18), Num(95), Num(9)>>
      [] m = "breaker" -> <<Num(62), Q(63, 10), Q(146, 10)>>
      [] m = "busbar" -> <<Num(400), Num(2500), Num(66)>>
      [] m = "bayline" ->
            <<Num(398), Num(1780), Num(640), Num(40), Q(94, 100), Q(5002, 100), Q(26, 10)>>

\* every name the i-th raw field of predictor m is read under
NamesOf(m, i) == {ORDER(m)[i], CAMEL(m)[i]} \cup {a[1] : a \in {b \in MIDDLE(m) : b[2] = i}}

DirectCall == IsDict(req.input_data) /\ Truthy(req.input_data)

LegacyCall ==
    /\ ~Truthy(req.input_data)
    /\ select_mode(req.module, req.area_code, req.substation_id, req.input_data,
                   req.store).res.t = "returned"

\* the reading supplied to the current call: input_data, or the component's section of
\* the realtime snapshot
ReadingOfCall ==
    IF DirectCall THEN req.input_data
    ELSE Get(Or(req.store.live_root, EmptyDict), LIVE_KEY(req.module), EmptyDict)

AbsentFields ==
    {i \in DOMAIN ORDER(req.module) :
        NamesOf(req.module, i) \cap DOMAIN ReadingOfCall.items = {}}

\* a finished call of a model-backed predictor whose artifacts load, in one of the two
\* modes, on a reading that lacks a raw field
SparseCall ==
    /\ pc # "idle" /\ req.module \in MODEL_BACKED
    /\ load_models(MODEL_NAME(req.module), req.store.models).t = "returned"
    /\ DirectCall \/ LegacyCall
    /\ IsDict(ReadingOfCall)
    /\ AbsentFields # {}

DefaultsUsed ==
    /\ report.t = "returned"
    /\ \A i \in AbsentFields :
          frame.data.items[ORDER(req.module)[i]] = PyNum(DEFAULTS(req.module)[i])

\* C20: for every model-backed predictor, in legacy mode and in direct mode, a raw
\* field absent from the supplied reading is replaced by the component's default, and
\* predict returns a report.
C20_SparseDefaults == SparseCall => DefaultsUsed

-----------------------------------------------------------------------------
(* The fused probability *)

\* 0.50 p + 0.30 stress + 0.20 asset_aging
Fused(p, stress, asset_aging) ==
    Add(Add(Mul(Q(1, 2), p), Mul(Q(3, 10), stress)), Mul(Q(1, 5), asset_aging))

\* C21: the fault_probability a model-backed predictor reports is
\* clip(0.50 p + 0.30 stress + 0.20 asset_aging, 0, 1) rounded to 3 decimals, p being
\* the pre-fusion probability, which lies in [0, 1]; the report carries the fused value
\* and not p.
C21_FusedProbability ==
    Reported =>
        /\ Unit(frame.fault_prob)
        /\ report.val.fault_probability =
              round(RMax(Zero, RMin(One, Fused(frame.fault_prob, frame.stress,
                                               frame.asset_aging))), 3)

\* a report whose fault_probability is the fused value and differs from the pre-fusion
\* probability, which selected a fault
C21_Witness ==
    /\ Reported
    /\ report.val.fault_probability # round(frame.fault_prob, 3)
    /\ Lt(Zero, report.val.fault_probability) /\ Lt(report.val.fault_probability, One)
    /\ report.val.predicted_fault # "Normal"

-----------------------------------------------------------------------------
(* The names of a reading field in legacy mode *)

\* a legacy-mode call of a model-backed predictor has returned its report
LegacyReported == Reported /\ LegacyCall /\ IsDict(ReadingOfCall)

\* the names of names that the reading holds, by position
Held(reading, names) == {k \in 1 .. Len(names) : names[k] \in DOMAIN reading.items}

\* the value under the first name the reading holds, the default when it holds none
FirstMatch(reading, names, default) ==
    IF Held(reading, names) = {} THEN default
    ELSE reading.items[names[CHOOSE k \in Held(reading, names) :
                                 \A j \in Held(reading, names) : k <= j]]

\* C22: in legacy mode every reading field is resolved from the live record by the
\* first of its names that the record holds, the newest name first and the data name
\* last, and by the component's default when it holds none; a later name is never used
\* when an earlier one is held.
C22_AliasPrecedence ==
    LegacyReported =>
        \A i \in DOMAIN ORDER(req.module) :
            frame.data.items[ORDER(req.module)[i]] =
                FirstMatch(ReadingOfCall, ALIASES(req.module, i),
                           PyNum(DEFAULTS(req.module)[i]))

\* a field with three names: the record lacks the newest and holds the two older ones
\* with different values, and the middle one was used
C22_Witness ==
    /\ LegacyReported
    /\ \E i \in DOMAIN ORDER(req.module) :
          /\ Len(ALIASES(req.module, i)) = 3
          /\ Held(ReadingOfCall, ALIASES(req.module, i)) = {2, 3}
          /\ ReadingOfCall.items[ALIASES(req.module, i)[2]]
                # ReadingOfCall.items[ALIASES(req.module, i)[3]]
          /\ frame.data.items[ORDER(req.module)[i]]
                = ReadingOfCall.items[ALIASES(req.module, i)[2]]

-----------------------------------------------------------------------------
(* The installation year in legacy mode *)

\* installationYear of section of the asset document of the current call, None when
\* the document has no such section or the section no year
YearAt(section) ==
    LET doc == Or(req.store.asset, EmptyDict)
    IN  IF IsDict(doc) /\ IsDict(Get(doc, section, PyNone))
        THEN Get(Get(doc, section, PyNone), "installationYear", PyNone)
        ELSE PyNone

\* the year the merged-input precedence gives: asset level, then master level, then
\* the component's default
YearByPrecedence ==
    IF YearAt("assets") # PyNone THEN YearAt("assets")
    ELSE IF YearAt("master") # PyNone THEN YearAt("master")
    ELSE PyNum(Num(DEFAULT_YEAR(req.module)))

\* C23: in legacy mode the installation year used for asset aging is the asset-level
\* installationYear when present, otherwise the master-level installationYear, and the
\* component's default year only when both are absent.
C23_YearPrecedence ==
    LegacyReported => frame.data.items["installationYear"] = YearByPrecedence

-----------------------------------------------------------------------------
(* Impact factors and the health index *)

\* the impact factors that enter as weight * (1 - normalized value): the factor, its
\* weight, the normalized feature
INVERTED(m) ==
    CASE m = "breaker" -> {<<"SF6Pressure", 30, "sf6_norm">>}
      [] m = "busbar" -> {<<"BusVoltage", 20, "voltage_norm">>}
      [] m = "bayline" -> {<<"BusVoltage", 10, "voltage_norm">>}
      [] OTHER -> {}

\* the value under name in a sequence of <<name, value>> pairs
ValueOf(pairs, name) == pairs[CHOOSE i \in DOMAIN pairs : pairs[i][1] = name][2]

PenaltySum == Sum([i \in DOMAIN frame.impact_factors |-> frame.impact_factors[i][2]])

\* C24: the impact factors are the penalty terms of the health index: the unrounded
\* health_index is clip(100 - the sum of all impact-factor values, 0, 100), the voltage
\* term and the breaker's SF6 term being weight * (1 - normalized value).
C24_FactorsArePenalties ==
    Reported =>
        /\ frame.health_index = RMax(Zero, RMin(Num(100), Sub(Num(100), PenaltySum)))
        /\ \A t \in INVERTED(req.module) :
              ValueOf(frame.impact_factors, t[1])
                 = Mul(Num(t[2]), Sub(One, ValueOf(frame.summed, t[3])))

\* a report whose health_index is strictly inside (0, 100) and whose inverted term and
\* aging term both take part of the penalty
C24_Witness ==
    /\ Reported
    /\ Lt(Zero, frame.health_index) /\ Lt(frame.health_index, Num(100))
    /\ \E t \in INVERTED(req.module) :
          /\ Lt(Zero, ValueOf(frame.impact_factors, t[1]))
          /\ Lt(Zero, ValueOf(frame.summed, t[3]))
    /\ Lt(Zero, ValueOf(frame.impact_factors, "Aging"))

-----------------------------------------------------------------------------
(* Direct mode *)

\* a direct-mode call of a model-backed predictor has ended
DirectEnded == pc # "idle" /\ req.module \in MODEL_BACKED /\ DirectCall

Fetches == {"fetch_realtime", "fetch_asset_metadata"}

\* C25: a predict call with a non-empty input_data makes no telemetry fetch and no
\* asset-metadata fetch, whether or not area_code and substation_id are supplied too;
\* its report has asset_metadata {} and live_readings equal to the supplied input_data.
C25_DirectBypassesFetch ==
    DirectEnded =>
        /\ \A i \in DOMAIN calls : calls[i] \notin Fetches
        /\ pc = "returned" => /\ report.val.asset_metadata = EmptyDict
                              /\ report.val.live_readings = req.input_data

\* a direct-mode report of a call that also named the area and the substation, the
\* stores being unreachable, on an input_data without installationYear
C25_Witness ==
    /\ DirectEnded /\ pc = "returned"
    /\ Truthy(req.area_code) /\ Truthy(req.substation_id)
    /\ ~req.store.credentials
    /\ "installationYear" \notin DOMAIN req.input_data.items
    /\ \E i \in DOMAIN calls : calls[i] = "load_models"

-----------------------------------------------------------------------------
(* The retry of the forecaster's load *)

\* what the k-th tf.keras load_model call on the forecaster's file gives
Attempt(k) == req.store.models.lstm_attempts[k]

\* a predict call reached load_models, the forecaster's file is there and its first
\* load fails on the embedded metric or loss definitions
RetryCase ==
    /\ LoadReached /\ ~Missing(1)
    /\ Attempt(1) \in {"ValueError", "TypeError"}

Loaded(made) == \E i \in DOMAIN made : made[i] = "load_models.loaded"

\* C26: when the first load of the forecaster fails on incompatible metric or loss
\* definitions, load_models retries once with the substitute definitions.  If the retry
\* succeeds, loading goes on with the regressor and the detector; if it fails, the call
\* raises ValueError naming the forecaster's path, whatever a third attempt would give,
\* and no bundle is returned or cached.
C26_OneRetry ==
    RetryCase =>
        IF Attempt(2) = "ok"
        THEN /\ (~Missing(2) /\ ~Missing(3)) =>
                   /\ pc = "returned"
                   /\ MODEL_NAME(req.module) \in DOMAIN cache
                   /\ DOMAIN cache[MODEL_NAME(req.module)] = {"lstm", "xgb", "iso"}
             /\ Missing(2) => report = RaisedAt("FileNotFoundError", ArtifactPaths[2])
             /\ (~Missing(2) /\ Missing(3)) =>
                   report = RaisedAt("FileNotFoundError", ArtifactPaths[3])
        ELSE /\ report = RaisedAt("ValueError", ArtifactPaths[1])
             /\ ~Loaded(calls)
             /\ MODEL_NAME(req.module) \notin DOMAIN cache

\* the first load and the retry both failed, a third attempt would have loaded the
\* forecaster, and the call raised the fatal error with nothing cached
C26_Witness ==
    /\ RetryCase /\ Attempt(2) # "ok"
    /\ Len(req.store.models.lstm_attempts) = 3 /\ Attempt(3) = "ok"
    /\ ~Missing(2) /\ ~Missing(3)
    /\ report = RaisedAt("ValueError", ArtifactPaths[1])
    /\ cache = NoCache

-----------------------------------------------------------------------------
(* The anomaly detector's label *)

\* C27: the detector's label is reported with inverted polarity: the outlier label -1
\* gives IsolationForestScore 1, the inlier label 1 gives 0; the score is 0 or 1.
C27_IsoPolarity ==
    Reported =>
        /\ arts.iso = -1 => report.val.IsolationForestScore = 1
        /\ arts.iso = 1 => report.val.IsolationForestScore = 0
        /\ report.val.IsolationForestScore \in {0, 1}

\* one request run under both labels: the inlier first, reported 0, then the outlier,
\* reported 1
C27_Witness ==
    /\ Reported /\ prev.t = "returned"
    /\ arts.iso = -1 /\ report.val.IsolationForestScore = 1
    /\ prev.val.IsolationForestScore = 0

-----------------------------------------------------------------------------
(* Explanation and diagnosis *)

HighVariant == report.val.explanation.variant = "High fault probability detected"

NormalVariant == report.val.explanation.variant = "Operating within normal parameters"

\* C28: in every report of a model-backed predictor the explanation and the diagnosis
\* agree at the high end: the "High fault probability detected" explanation (pre-fusion
\* probability above 0.7) never comes with predicted_fault "Normal", and a "Normal"
\* predicted_fault always comes with the "Operating within normal parameters"
\* explanation.
C28_ExplanationAgrees ==
    Reported =>
        /\ HighVariant <=> Lt(Q(7, 10), frame.fault_prob)
        /\ HighVariant => report.val.predicted_fault # "Normal"
        /\ report.val.predicted_fault = "Normal" => NormalVariant

\* the high variant with a fault of the library, in a report whose fused
\* fault_probability is below 0.7: the variant follows the pre-fusion probability
C28_Witness ==
    /\ Reported /\ HighVariant
    /\ report.val.predicted_fault # "Normal"
    /\ Lt(report.val.fault_probability, Q(7, 10))

-----------------------------------------------------------------------------
(* What the three models can change in a report *)

\* a request was run twice by a model-backed predictor, the models answering
\* differently, and both runs returned
RanTwice == Reported /\ prev.t = "returned"

\* the fields of the report that carry a model's output
MODEL_FIELDS ==
    {"LSTM_ForecastScore", "IsolationForestScore", "XGBoost_FaultScore", "explanation",
     "timeline_prediction"}

\* C29: fault_probability, whether predicted_fault is "Normal", and
\* Top3_HealthImpactFactors are determined by the readings and the installation year:
\* two runs of one request that differ only in the outputs of the three models agree on
\* them, and on every field other than the per-model scores, the explanation and the
\* timeline.
C29_ModelsChangeScoresOnly ==
    RanTwice =>
        /\ report.val.fault_probability = prev.val.fault_probability
        /\ (report.val.predicted_fault = "Normal") <=> (prev.val.predicted_fault = "Normal")
        /\ report.val.Top3_HealthImpactFactors = prev.val.Top3_HealthImpactFactors
        /\ DOMAIN report.val = DOMAIN prev.val
        /\ \A k \in DOMAIN report.val \ MODEL_FIELDS : report.val[k] = prev.val[k]

\* two runs of a request with a fault diagnosed: the explanation and the timeline
\* changed with the models, the regressor's score going above the fused probability
C29_Witness ==
    /\ RanTwice
    /\ report.val.predicted_fault # "Normal"
    /\ report.val.explanation # prev.val.explanation
    /\ report.val.timeline_prediction # prev.val.timeline_prediction
    /\ Lt(report.val.fault_probability, report.val.XGBoost_FaultScore)
    /\ Lt(prev.val.XGBoost_FaultScore, prev.val.fault_probability)

-----------------------------------------------------------------------------
(* An empty input_data *)

\* the current call of a model-backed predictor passed an empty mapping as input_data
EmptyCall == pc # "idle" /\ req.module \in MODEL_BACKED /\ req.input_data = EmptyDict

\* the first call's request with input_data left out
AsAbsent ==
    predict(req.module, req.area_code, req.substation_id, PyNone, req.store, NoCache,
            arts, rng)

\* C30: an empty input_data mapping counts as not supplied.  Without both area_code and
\* substation_id the call raises the usage error, having called nothing; with both it
\* runs legacy mode, fetching telemetry and then asset metadata; either way the call
\* ends exactly as the same call without input_data.  The two tests of the mode in
\* predict agree: no call finds live_data or data unassigned at the extraction.
C30_EmptyIsAbsent ==
    /\ (pc # "idle" /\ req.module \in MODEL_BACKED) => report # Raised("UnboundLocalError")
    /\ EmptyCall =>
          /\ (~Truthy(req.area_code) \/ ~Truthy(req.substation_id))
                => report = Raised("ValueError") /\ calls = <<>>
          /\ (Truthy(req.area_code) /\ Truthy(req.substation_id))
                => /\ Len(calls) >= 1 /\ calls[1] = "fetch_realtime"
                   /\ req.store.credentials
                         => Len(calls) >= 2 /\ calls[2] = "fetch_asset_metadata"
          /\ prev = NotCalled
                => /\ report = AsAbsent.out /\ frame = AsAbsent.frame
                   /\ calls = AsAbsent.calls /\ cache = AsAbsent.cache

\* a legacy-mode report of a call that passed {} with the area and the substation: both
\* fetches were made, the models were loaded, and the reading reported is the
\* snapshot's, not the empty mapping
C30_Witness ==
    /\ EmptyCall /\ pc = "returned"
    /\ SubSeq(calls, 1, 2) = <<"fetch_realtime", "fetch_asset_metadata">>
    /\ \E i \in DOMAIN calls : calls[i] = "load_models"
    /\ Truthy(report.val.live_readings)
    /\ report.val.asset_metadata = req.store.asset

====
